---- MODULE Spec2Model ----
(***************************************************************************)
(* Model of wiki-extractor/extract_wiki_titles.py: the streaming dump      *)
(* extractor extract_titles_only (structured iterparse pass, line-by-line  *)
(* fallback and the JSON lines it writes), the page filter                 *)
(* is_valid_article, and main with download_dump.                          *)
(*                                                                         *)
(* A dump is a sequence of lines; a line is a sequence of tokens.  A token *)
(* is a string: a tag ("<page>", "</title>", "<text />", ...), a chunk of  *)
(* character data ("Cat", ":", "(disambiguation)") or the line end "\n".   *)
(* Python's substring tests, find() and slices are modelled on tokens.     *)
(* The <mediawiki> root and the <siteinfo> header are left out: no handler *)
(* of either parser matches their tags.                                    *)
(***************************************************************************)
EXTENDS Integers, Sequences, FiniteSets, TLC

VARIABLES args, dump, pc, context, file_handle, current_page, in_revision,
          in_text, is_redirect, text_lines, articles, output, emittedAt,
          discarded, printed, output_file, main,
          json_files, wx, shot, pool

\* the state of the components other than extract_titles_only and main
others == <<json_files, wx, shot, pool>>

vars == <<args, dump, pc, context, file_handle, current_page, in_revision,
          in_text, is_redirect, text_lines, articles, output, emittedAt,
          discarded, printed, output_file, main, others>>

(***************************************************************************)
(* Bounds of the model                                                     *)
(***************************************************************************)
MaxPages == 2
MaxLimit == 1

(***************************************************************************)
(* Tokens and lines                                                        *)
(***************************************************************************)
NL == "\n"

OpenTags ==
  ("<page>" :> "page") @@ ("<title>" :> "title") @@ ("<id>" :> "id") @@
  ("<revision>" :> "revision") @@ ("<text>" :> "text") @@ ("<sha1>" :> "sha1")

CloseTags ==
  ("</page>" :> "page") @@ ("</title>" :> "title") @@ ("</id>" :> "id") @@
  ("</revision>" :> "revision") @@ ("</text>" :> "text") @@ ("</sha1>" :> "sha1")

EmptyTags == ("<redirect />" :> "redirect") @@ ("<text />" :> "text")

\* A raw "&" is not well-formed XML character data.
BadChars == {"&"}

\* Python: sub in line, for a sub that is one whole token
Has(line, tok) == \E i \in 1..Len(line) : line[i] = tok

\* Python: sub in line, for a sub that is the beginning of a tag
HasAny(line, toks) == \E i \in 1..Len(line) : line[i] \in toks

\* Python: line.find(sub), in tokens, 0-based, -1 when absent
Find(line, toks) ==
  IF HasAny(line, toks)
  THEN (CHOOSE i \in 1..Len(line) :
          line[i] \in toks /\ \A j \in 1..(i-1) : line[j] \notin toks) - 1
  ELSE -1

\* Python: line.find(tag) + len(tag), the 0-based index after the tag
FindAfter(line, toks) == Find(line, toks) + 1

\* Python: line[a:b] with 0 <= a
Slice(line, a, b) == SubSeq(line, a + 1, b)

TagsWithGt == DOMAIN OpenTags \cup DOMAIN CloseTags \cup DOMAIN EmptyTags
TagsWithText == {"<text>", "<text />"}
TagsWithRedirect == {"<redirect />"}

(***************************************************************************)
(* Python dict                                                             *)
(***************************************************************************)
EmptyDict == [x \in {} |-> <<>>]
Put(d, key, v) == [x \in DOMAIN d \cup {key} |-> IF x = key THEN v ELSE d[x]]
Get(d, key) == IF key \in DOMAIN d THEN d[key] ELSE <<>>

RECURSIVE Join(_)
Join(ss) == IF ss = <<>> THEN <<>> ELSE Head(ss) \o Join(Tail(ss))

(***************************************************************************)
(* Command line (main)                                                     *)
(***************************************************************************)
None == -1
Truthy(n) == n # None /\ n # 0

limit == args.limit
include_text == args.include_text
filter_disambiguationNegated == args.include_disambiguation
filter_disambiguation == ~args.include_disambiguation

(***************************************************************************)
(* is_valid_article                                                        *)
(***************************************************************************)
excluded_namespaces ==
  {"Template", "Category", "File", "Image", "Help", "Wikipedia",
   "Portal", "Book", "Draft", "User", "MediaWiki", "Module",
   "Media", "Special", "Talk", "User talk", "Wikipedia talk",
   "File talk", "Template talk", "Category talk", "Help talk",
   "Portal talk", "Book talk", "Draft talk", "Module talk"}

\* title.split(':', 1)[0]
SplitNamespace(title) == Slice(title, 0, Find(title, {":"}))

\* title.endswith('(disambiguation)')
EndsWithDisambiguation(title) ==
  title # <<>> /\ title[Len(title)] = "(disambiguation)"

\* variants of is_valid_article with one check dropped or widened
is_valid_articleNoRedirect(title, redirect, filter) ==
  IF Has(title, ":") /\ \E ns \in excluded_namespaces : SplitNamespace(title) = <<ns>>
  THEN FALSE
  ELSE IF filter /\ EndsWithDisambiguation(title)
  THEN FALSE
  ELSE TRUE

is_valid_articleAnyColon(title, redirect, filter) ==
  IF redirect
  THEN FALSE
  ELSE IF Has(title, ":")
  THEN FALSE
  ELSE IF filter /\ EndsWithDisambiguation(title)
  THEN FALSE
  ELSE TRUE

is_valid_article(title, redirect, filter) ==
  IF redirect
  THEN FALSE
  ELSE IF Has(title, ":") /\ \E ns \in excluded_namespaces : SplitNamespace(title) = <<ns>>
  THEN FALSE
  ELSE IF filter /\ EndsWithDisambiguation(title)
  THEN FALSE
  ELSE TRUE

(***************************************************************************)
(* xml.etree.ElementTree.iterparse over the open dump: the pull parser     *)
(* reads the lines in order and queues their events; an "error" event      *)
(* stands for ET.ParseError (a malformed token, a mismatched end tag, or   *)
(* the end of the input with elements still open).  An event carries the   *)
(* element's tag, its text (the character data before its first child,     *)
(* <<>> for None) and the line it was read from.                           *)
(***************************************************************************)
Event(type, tag, text, ln) == [type |-> type, tag |-> tag, text |-> text, line |-> ln]

\* character data goes to the text of the innermost open element that has no child yet
AddText(stack, tok) ==
  IF stack = <<>> \/ stack[Len(stack)].child
  THEN stack
  ELSE [stack EXCEPT ![Len(stack)].text = Append(@, tok)]

MarkChild(stack) ==
  IF stack = <<>> THEN stack ELSE [stack EXCEPT ![Len(stack)].child = TRUE]

\* the parser after the tokens ti.. of line li of dump d
RECURSIVE FeedLine(_, _, _, _)
FeedLine(d, li, ti, ctx) ==
  IF ti > Len(d[li])
  THEN ctx
  ELSE LET tok == d[li][ti]
           stack == ctx.stack
       IN
    IF tok \in DOMAIN OpenTags
    THEN FeedLine(d, li, ti + 1,
           [ctx EXCEPT
              !.stack = Append(MarkChild(stack),
                               [tag |-> OpenTags[tok], text |-> <<>>, child |-> FALSE]),
              !.queue = Append(@, Event("start", OpenTags[tok], <<>>, li))])
    ELSE IF tok \in DOMAIN EmptyTags
    THEN FeedLine(d, li, ti + 1,
           [ctx EXCEPT
              !.stack = MarkChild(stack),
              !.queue = @ \o <<Event("start", EmptyTags[tok], <<>>, li),
                               Event("end", EmptyTags[tok], <<>>, li)>>])
    ELSE IF tok \in DOMAIN CloseTags
    THEN IF stack = <<>> \/ stack[Len(stack)].tag # CloseTags[tok]
         THEN [ctx EXCEPT !.queue = Append(@, Event("error", "", <<>>, li))]
         ELSE FeedLine(d, li, ti + 1,
                [ctx EXCEPT
                   !.stack = SubSeq(stack, 1, Len(stack) - 1),
                   !.queue = Append(@, Event("end", CloseTags[tok],
                                             stack[Len(stack)].text, li))])
    ELSE IF tok \in BadChars
    THEN [ctx EXCEPT !.queue = Append(@, Event("error", "", <<>>, li))]
    ELSE FeedLine(d, li, ti + 1, [ctx EXCEPT !.stack = AddText(stack, tok)])

\* read on until an event is queued or the input ends
RECURSIVE Pull(_, _)
Pull(d, ctx) ==
  IF ctx.queue # <<>>
  THEN ctx
  ELSE IF ctx.pos < Len(d)
  THEN Pull(d, FeedLine(d, ctx.pos + 1, 1, [ctx EXCEPT !.pos = @ + 1]))
  ELSE IF ctx.stack # <<>>
  THEN [ctx EXCEPT !.stack = <<>>,
                   !.queue = <<Event("error", "", <<>>, Len(d) + 1)>>]
  ELSE ctx

NoContext == [pos |-> 0, stack |-> <<>>, queue |-> <<>>]

iterparse(d) == Pull(d, NoContext)

\* the iterator after the event at its head has been taken
Advance(d, ctx) == Pull(d, [ctx EXCEPT !.queue = Tail(@)])

\* elem.tag.endswith(suffix)
TagEndsWith(tag, suffix) ==
  \/ tag = suffix
  \/ tag = "parentid" /\ suffix = "id"

(***************************************************************************)
(* The dumps the extractor is run on: up to MaxPages page blocks taken     *)
(* from a catalogue of well-formed and damaged pages, and the four-page    *)
(* dump of the specification's scenario.                                   *)
(***************************************************************************)
LTitle(t) == <<"<title>">> \o t \o <<"</title>", NL>>
LId(i) == <<"<id>">> \o i \o <<"</id>", NL>>
LText(t) == <<"<text>">> \o t \o <<"</text>", NL>>
LRedirect == <<"<redirect />", NL>>
LSha1 == <<"<sha1>", "abc", "</sha1>", NL>>
Line(tok) == <<tok, NL>>

Page(body) == <<Line("<page>")>> \o body \o <<Line("</page>")>>
Revision(body) == <<Line("<revision>")>> \o body \o <<Line("</revision>")>>

TCat == <<"Cat">>
TCategory == <<"Category", ":", "Cats">>
TDisambiguation == <<"Dog ", "(disambiguation)">>
TKitty == <<"Kitty">>
TBash == <<"Bash", ":", " A Tale">>
TTalk == <<"MediaWiki talk", ":", "Main Page">>
TAmp == <<"AT", "&", "T">>

PCat == Page(<<LTitle(TCat), LId(<<"42">>)>> \o Revision(<<LId(<<"9001">>)>>))
PCategory == Page(<<LTitle(TCategory), LId(<<"2">>)>>)
PDisambiguation == Page(<<LTitle(TDisambiguation), LId(<<"3">>)>>)
PKitty == Page(<<LTitle(TKitty), LId(<<"4">>), LRedirect>>)
PBash == Page(<<LTitle(TBash), LId(<<"5">>)>>)
PTalk == Page(<<LTitle(TTalk), LId(<<"6">>)>>)
PEmptyId == Page(<<LTitle(<<"Emu">>), LId(<<>>), LId(<<"7">>)>>)
PEmptyTitle == Page(<<LTitle(<<>>), LId(<<"8">>)>>)
PUnclosed == <<Line("<page>"), LTitle(<<"Ant">>), LId(<<"9">>)>>
PAmp == Page(<<LTitle(TAmp), LId(<<"10">>)>>)
PSelfClosingText ==
  Page(<<LTitle(<<"Fox">>), LId(<<"11">>)>> \o Revision(<<Line("<text />"), LSha1>>))
PText ==
  Page(<<LTitle(<<"Gnu">>), LId(<<"12">>)>> \o Revision(<<LText(<<"body">>), LSha1>>))

PMultilineText ==
  Page(<<LTitle(<<"Hen">>), LId(<<"13">>)>>
         \o Revision(<<<<"<text>", "a", NL>>, <<"\"", "\\", NL>>,
                       <<"c", "</text>", NL>>>>))

\* a title and an id inside the revision, the page id after it
PRevisionFields ==
  Page(<<LTitle(<<"Ibis">>)>> \o Revision(<<LId(<<"9001">>), LTitle(<<"Old">>)>>)
         \o <<LId(<<"14">>)>>)

\* a text element cut off before its closing tag
PTruncatedText ==
  Page(<<LTitle(<<"Jay">>), LId(<<"15">>)>> \o Revision(<<<<"<text>", "a", NL>>>>))

Catalogue ==
  {PCat, PCategory, PDisambiguation, PKitty, PBash, PTalk, PEmptyId,
   PEmptyTitle, PUnclosed, PAmp, PSelfClosingText, PText, PMultilineText,
   PRevisionFields, PTruncatedText}

ScenarioDump ==
  Page(<<LTitle(TCat), LId(<<"1">>)>>) \o PCategory \o PDisambiguation \o PKitty

Dumps ==
  {Join(ps) : ps \in UNION {[1..n -> Catalogue] : n \in 0..MaxPages}}
    \cup {ScenarioDump}

Args ==
  [include_disambiguation : BOOLEAN, include_text : BOOLEAN,
   limit : {None} \cup 0..MaxLimit]

Closed == [open |-> FALSE, pos |-> 0, opens |-> 0]

\* what the structured pass had collected when it failed (nothing so far)
NothingDiscarded == [articles |-> <<>>, emittedAt |-> <<>>, line |-> 0]

\* the output file does not exist
NoFile == [exists |-> FALSE, content |-> <<>>]

\* main has resolved an existing local dump and calls the extractor
CallingExtractor ==
  [pc |-> "extracting", skip_download |-> TRUE, disk |-> "present", net |-> "ok",
   exc |-> "none"]

\* the locals of extract_titles_only before the dump is opened
\* extract_with_wikiextractor, capture_wiki_screenshot and the screenshot
\* pool are not running
NotExtracting == [pc |-> "idle", file |-> 0, line |-> 0, temp_dir |-> FALSE]
NotCapturing ==
  [pc |-> "idle", full_page |-> FALSE, attempt |-> 0, driver |-> 0, created |-> 0,
   live |-> {}, quits |-> <<>>, errors |-> <<>>, file |-> FALSE, result |-> "none"]
NoPool ==
  [pc |-> "idle", existing_files |-> {}, doc_ids_txt |-> {}, screenshots |-> {},
   existing_doc_ids |-> {}, target_doc_ids |-> {}, urls |-> {}, queue |-> {},
   workers |-> <<>>, handed |-> <<>>, writes |-> {}]

OthersIdle ==
  /\ json_files = <<>>
  /\ wx = NotExtracting
  /\ shot = NotCapturing
  /\ pool = NoPool

Locals ==
  /\ context = NoContext
  /\ file_handle = Closed
  /\ current_page = EmptyDict
  /\ in_revision = FALSE
  /\ in_text = FALSE
  /\ is_redirect = FALSE
  /\ text_lines = <<>>
  /\ articles = <<>>
  /\ output = <<>>
  /\ emittedAt = <<>>
  /\ discarded = NothingDiscarded
  /\ printed = {}
  /\ output_file = NoFile

Init ==
  /\ args \in Args
  /\ dump \in Dumps
  /\ pc = "start"
  /\ main = CallingExtractor
  /\ Locals
  /\ OthersIdle

(***************************************************************************)
(* extract_titles_only: the structured pass                                *)
(***************************************************************************)
\* open the dump and create the iterparse context
OpenDump ==
  /\ pc = "start"
  /\ file_handle' = [open |-> TRUE, pos |-> 0, opens |-> 1]
  /\ context' = iterparse(dump)
  /\ pc' = "structured"
  /\ UNCHANGED <<args, dump, current_page, in_revision, in_text, is_redirect,
                 text_lines, articles, output, emittedAt,
                 discarded, printed, output_file, main, others>>

HasEvent(type) ==
  pc = "structured" /\ context.queue # <<>> /\ Head(context.queue).type = type
elem == Head(context.queue)

StartPage ==
  /\ HasEvent("start")
  /\ TagEndsWith(elem.tag, "page")
  /\ current_page' = EmptyDict
  /\ is_redirect' = FALSE
  /\ context' = Advance(dump, context)
  /\ UNCHANGED <<args, dump, pc, file_handle, in_revision, in_text, text_lines,
                 articles, output, emittedAt,
                 discarded, printed, output_file, main, others>>

StartRevision ==
  /\ HasEvent("start")
  /\ ~TagEndsWith(elem.tag, "page")
  /\ TagEndsWith(elem.tag, "revision")
  /\ in_revision' = TRUE
  /\ context' = Advance(dump, context)
  /\ UNCHANGED <<args, dump, pc, file_handle, current_page, in_text, is_redirect,
                 text_lines, articles, output, emittedAt,
                 discarded, printed, output_file, main, others>>

StartRedirect ==
  /\ HasEvent("start")
  /\ ~TagEndsWith(elem.tag, "page")
  /\ ~TagEndsWith(elem.tag, "revision")
  /\ TagEndsWith(elem.tag, "redirect")
  /\ is_redirect' = TRUE
  /\ context' = Advance(dump, context)
  /\ UNCHANGED <<args, dump, pc, file_handle, current_page, in_revision, in_text,
                 text_lines, articles, output, emittedAt,
                 discarded, printed, output_file, main, others>>

StartOther ==
  /\ HasEvent("start")
  /\ ~TagEndsWith(elem.tag, "page")
  /\ ~TagEndsWith(elem.tag, "revision")
  /\ ~TagEndsWith(elem.tag, "redirect")
  /\ context' = Advance(dump, context)
  /\ UNCHANGED <<args, dump, pc, file_handle, current_page, in_revision, in_text,
                 is_redirect, text_lines, articles, output, emittedAt,
                 discarded, printed, output_file, main, others>>

\* the conditions of the if/elif chain of the 'end' branch, in order
EndIsTitleAnywhere == TagEndsWith(elem.tag, "title")

EndIsTitle == TagEndsWith(elem.tag, "title") /\ ~in_revision
EndIsId ==
  /\ ~EndIsTitle
  /\ TagEndsWith(elem.tag, "id") /\ ~in_revision /\ "id" \notin DOMAIN current_page
EndIsText ==
  /\ ~EndIsTitle /\ ~EndIsId
  /\ TagEndsWith(elem.tag, "text") /\ include_text /\ in_revision
EndIsRevision ==
  /\ ~EndIsTitle /\ ~EndIsId /\ ~EndIsText
  /\ TagEndsWith(elem.tag, "revision")
EndIsPage ==
  /\ ~EndIsTitle /\ ~EndIsId /\ ~EndIsText /\ ~EndIsRevision
  /\ TagEndsWith(elem.tag, "page")

EndTitle ==
  /\ HasEvent("end")
  /\ EndIsTitle
  /\ current_page' = Put(current_page, "title", elem.text)
  /\ context' = Advance(dump, context)
  /\ UNCHANGED <<args, dump, pc, file_handle, in_revision, in_text, is_redirect,
                 text_lines, articles, output, emittedAt,
                 discarded, printed, output_file, main, others>>

EndId ==
  /\ HasEvent("end")
  /\ EndIsId
  /\ current_page' = Put(current_page, "id", elem.text)
  /\ context' = Advance(dump, context)
  /\ UNCHANGED <<args, dump, pc, file_handle, in_revision, in_text, is_redirect,
                 text_lines, articles, output, emittedAt,
                 discarded, printed, output_file, main, others>>

EndText ==
  /\ HasEvent("end")
  /\ EndIsText
  /\ current_page' = IF elem.text # <<>>
                     THEN Put(current_page, "text", elem.text)
                     ELSE current_page
  /\ in_text' = FALSE
  /\ context' = Advance(dump, context)
  /\ UNCHANGED <<args, dump, pc, file_handle, in_revision, is_redirect,
                 text_lines, articles, output, emittedAt,
                 discarded, printed, output_file, main, others>>

EndRevision ==
  /\ HasEvent("end")
  /\ EndIsRevision
  /\ in_revision' = FALSE
  /\ context' = Advance(dump, context)
  /\ UNCHANGED <<args, dump, pc, file_handle, current_page, in_text, is_redirect,
                 text_lines, articles, output, emittedAt,
                 discarded, printed, output_file, main, others>>

ArticleAlwaysText(page) ==
  Put(Put(Put(EmptyDict, "id", Get(page, "id")), "title", Get(page, "title")),
      "text", Get(page, "text"))

\* the record built at a page close from current_page
Article(page) ==
  IF include_text /\ "text" \in DOMAIN page
  THEN Put(Put(Put(EmptyDict, "id", Get(page, "id")), "title", Get(page, "title")),
           "text", page["text"])
  ELSE Put(Put(EmptyDict, "id", Get(page, "id")), "title", Get(page, "title"))

AcceptsWithoutId(page) ==
  /\ Get(page, "title") # <<>>
  /\ is_valid_article(Get(page, "title"), is_redirect, filter_disambiguation)

\* title and page_id and is_valid_article(title, is_redirect, filter_disambiguation)
Accepts(page) ==
  /\ Get(page, "title") # <<>>
  /\ Get(page, "id") # <<>>
  /\ is_valid_article(Get(page, "title"), is_redirect, filter_disambiguation)

LimitReachedOffByOne(arts) == Truthy(limit) /\ Len(arts) > limit

\* limit and len(articles) >= limit
LimitReached(arts) == Truthy(limit) /\ Len(arts) >= limit

\* end of a page: append the Article; break (and close the file) at the
\* limit, else clear the per-page state
EndPage ==
  /\ HasEvent("end")
  /\ EndIsPage
  /\ articles' = IF Accepts(current_page)
                 THEN Append(articles, Article(current_page))
                 ELSE articles
  /\ emittedAt' = IF Accepts(current_page)
                  THEN Append(emittedAt, elem.line)
                  ELSE emittedAt
  /\ IF Accepts(current_page) /\ LimitReached(articles')
     THEN /\ pc' = "save"
          /\ file_handle' = [file_handle EXCEPT !.open = FALSE]
          /\ UNCHANGED <<context, current_page, in_revision, in_text, is_redirect>>
     ELSE /\ current_page' = EmptyDict
          /\ in_revision' = FALSE
          /\ in_text' = FALSE
          /\ is_redirect' = FALSE
          /\ context' = Advance(dump, context)
          /\ UNCHANGED <<pc, file_handle>>
  /\ UNCHANGED <<args, dump, text_lines, output, discarded, printed, output_file,
                 main, others>>

EndOther ==
  /\ HasEvent("end")
  /\ ~EndIsTitle /\ ~EndIsId /\ ~EndIsText /\ ~EndIsRevision /\ ~EndIsPage
  /\ context' = Advance(dump, context)
  /\ UNCHANGED <<args, dump, pc, file_handle, current_page, in_revision, in_text,
                 is_redirect, text_lines, articles, output, emittedAt,
                 discarded, printed, output_file, main, others>>

\* the events are exhausted: finally close the file
EndOfEvents ==
  /\ pc = "structured"
  /\ context.queue = <<>>
  /\ file_handle' = [file_handle EXCEPT !.open = FALSE]
  /\ pc' = "save"
  /\ UNCHANGED <<args, dump, context, current_page, in_revision, in_text,
                 is_redirect, text_lines, articles, output, emittedAt,
                 discarded, printed, output_file, main, others>>

ParseErrorKeepsArticles ==
  /\ HasEvent("error")
  /\ file_handle' = [open |-> TRUE, pos |-> 0, opens |-> file_handle.opens + 1]
  /\ current_page' = EmptyDict
  /\ in_revision' = FALSE
  /\ in_text' = FALSE
  /\ is_redirect' = FALSE
  /\ text_lines' = <<>>
  /\ context' = NoContext
  /\ pc' = "fallback"
  /\ discarded' = [articles |-> <<>>, emittedAt |-> <<>>, line |-> elem.line]
  /\ printed' = printed \cup {"Warning: XML parsing error", "Falling back to line-by-line parsing"}
  /\ UNCHANGED <<args, dump, articles, emittedAt, output, output_file, main, others>>

ParseErrorAborts ==
  /\ HasEvent("error")
  /\ file_handle' = [file_handle EXCEPT !.open = FALSE]
  /\ pc' = "aborted"
  /\ UNCHANGED <<args, dump, context, current_page, in_revision, in_text,
                 is_redirect, text_lines, articles, output, emittedAt, discarded,
                 printed, output_file, main, others>>

\* except ET.ParseError: close, reopen from the beginning, reset and scan lines
ParseError ==
  /\ HasEvent("error")
  /\ file_handle' = [open |-> TRUE, pos |-> 0, opens |-> file_handle.opens + 1]
  /\ articles' = <<>>
  /\ emittedAt' = <<>>
  /\ current_page' = EmptyDict
  /\ in_revision' = FALSE
  /\ in_text' = FALSE
  /\ is_redirect' = FALSE
  /\ text_lines' = <<>>
  /\ context' = NoContext
  /\ pc' = "fallback"
  /\ discarded' = [articles |-> articles, emittedAt |-> emittedAt, line |-> elem.line]
  /\ printed' = printed \cup {"Warning: XML parsing error", "Falling back to line-by-line parsing"}
  /\ UNCHANGED <<args, dump, output, output_file, main, others>>

(***************************************************************************)
(* extract_titles_only: the line-by-line fallback                          *)
(***************************************************************************)
line == dump[file_handle.pos + 1]

\* the for loop has fetched a line and the limit check lets it through
HasLine ==
  /\ pc = "fallback"
  /\ file_handle.pos < Len(dump)
  /\ ~LimitReached(articles)

NextLine == [file_handle EXCEPT !.pos = @ + 1]

\* if limit and len(articles) >= limit: break (the line is fetched, not
\* scanned); finally close the file
FbBreak ==
  /\ pc = "fallback"
  /\ file_handle.pos < Len(dump)
  /\ LimitReached(articles)
  /\ file_handle' = [file_handle EXCEPT !.pos = @ + 1, !.open = FALSE]
  /\ pc' = "save"
  /\ UNCHANGED <<args, dump, context, current_page, in_revision, in_text,
                 is_redirect, text_lines, articles, output, emittedAt,
                 discarded, printed, output_file, main, others>>

\* the conditions of the if/elif chain of the loop body, in order
FbIsRevisionOpen == Has(line, "<revision>")
FbIsRevisionClose == ~FbIsRevisionOpen /\ Has(line, "</revision>")
FbIsRedirect ==
  /\ ~FbIsRevisionOpen /\ ~Has(line, "</revision>")
  /\ HasAny(line, TagsWithRedirect)
FbIsTextOpen ==
  /\ ~FbIsRevisionOpen /\ ~Has(line, "</revision>") /\ ~HasAny(line, TagsWithRedirect)
  /\ HasAny(line, TagsWithText) /\ include_text /\ in_revision
FbBeforeInText ==
  \/ FbIsRevisionOpen \/ FbIsRevisionClose \/ FbIsRedirect \/ FbIsTextOpen
FbIsInText == ~FbBeforeInText /\ in_text /\ include_text
FbIsTitle ==
  /\ ~FbBeforeInText /\ ~FbIsInText
  /\ Has(line, "<title>") /\ ~in_revision
FbIsId ==
  /\ ~FbBeforeInText /\ ~FbIsInText /\ ~FbIsTitle
  /\ Has(line, "<id>") /\ ~in_revision /\ "id" \notin DOMAIN current_page
FbIsPageClose ==
  /\ ~FbBeforeInText /\ ~FbIsInText /\ ~FbIsTitle /\ ~FbIsId
  /\ Has(line, "</page>")

FbRevisionOpen ==
  /\ HasLine
  /\ FbIsRevisionOpen
  /\ in_revision' = TRUE
  /\ in_text' = FALSE
  /\ text_lines' = <<>>
  /\ file_handle' = NextLine
  /\ UNCHANGED <<args, dump, pc, context, current_page, is_redirect, articles,
                 output, emittedAt,
                 discarded, printed, output_file, main, others>>

FbRevisionClose ==
  /\ HasLine
  /\ FbIsRevisionClose
  /\ current_page' = IF include_text /\ text_lines # <<>>
                     THEN Put(current_page, "text", Join(text_lines))
                     ELSE current_page
  /\ in_revision' = FALSE
  /\ in_text' = FALSE
  /\ file_handle' = NextLine
  /\ UNCHANGED <<args, dump, pc, context, is_redirect, text_lines, articles,
                 output, emittedAt,
                 discarded, printed, output_file, main, others>>

FbRedirect ==
  /\ HasLine
  /\ FbIsRedirect
  /\ is_redirect' = TRUE
  /\ file_handle' = NextLine
  /\ UNCHANGED <<args, dump, pc, context, current_page, in_revision, in_text,
                 text_lines, articles, output, emittedAt,
                 discarded, printed, output_file, main, others>>

\* start = line.find('>') + 1; end = line.find('</text>')
FbTextOpen ==
  /\ HasLine
  /\ FbIsTextOpen
  /\ LET start == FindAfter(line, TagsWithGt)
         end == Find(line, {"</text>"})
     IN IF end > start
        THEN /\ text_lines' = Append(text_lines, Slice(line, start, end))
             /\ in_text' = FALSE
        ELSE IF start < Len(line)
        THEN /\ text_lines' = Append(text_lines, Slice(line, start, Len(line)))
             /\ in_text' = TRUE
        ELSE /\ text_lines' = text_lines
             /\ in_text' = TRUE
  /\ file_handle' = NextLine
  /\ UNCHANGED <<args, dump, pc, context, current_page, in_revision, is_redirect,
                 articles, output, emittedAt,
                 discarded, printed, output_file, main, others>>

FbInTextDropsLine ==
  /\ HasLine
  /\ FbIsInText
  /\ IF Has(line, "</text>")
     THEN /\ text_lines' = Append(text_lines, Slice(line, 0, Find(line, {"</text>"})))
          /\ in_text' = FALSE
     ELSE /\ text_lines' = text_lines
          /\ in_text' = in_text
  /\ file_handle' = NextLine
  /\ UNCHANGED <<args, dump, pc, context, current_page, in_revision, is_redirect,
                 articles, output, emittedAt, discarded, printed, output_file, main,
                 others>>

FbInText ==
  /\ HasLine
  /\ FbIsInText
  /\ IF Has(line, "</text>")
     THEN /\ text_lines' = Append(text_lines, Slice(line, 0, Find(line, {"</text>"})))
          /\ in_text' = FALSE
     ELSE /\ text_lines' = Append(text_lines, line)
          /\ in_text' = in_text
  /\ file_handle' = NextLine
  /\ UNCHANGED <<args, dump, pc, context, current_page, in_revision, is_redirect,
                 articles, output, emittedAt,
                 discarded, printed, output_file, main, others>>

\* start = line.find('<title>') + 7; end = line.find('</title>')
FbTitle ==
  /\ HasLine
  /\ FbIsTitle
  /\ LET start == FindAfter(line, {"<title>"})
         end == Find(line, {"</title>"})
     IN current_page' = IF end > start
                        THEN Put(current_page, "title", Slice(line, start, end))
                        ELSE current_page
  /\ file_handle' = NextLine
  /\ UNCHANGED <<args, dump, pc, context, in_revision, in_text, is_redirect,
                 text_lines, articles, output, emittedAt,
                 discarded, printed, output_file, main, others>>

\* start = line.find('<id>') + 4; end = line.find('</id>')
FbId ==
  /\ HasLine
  /\ FbIsId
  /\ LET start == FindAfter(line, {"<id>"})
         end == Find(line, {"</id>"})
     IN current_page' = IF end > start
                        THEN Put(current_page, "id", Slice(line, start, end))
                        ELSE current_page
  /\ file_handle' = NextLine
  /\ UNCHANGED <<args, dump, pc, context, in_revision, in_text, is_redirect,
                 text_lines, articles, output, emittedAt,
                 discarded, printed, output_file, main, others>>

FbPageClose ==
  /\ HasLine
  /\ FbIsPageClose
  /\ articles' = IF Accepts(current_page)
                 THEN Append(articles, Article(current_page))
                 ELSE articles
  /\ emittedAt' = IF Accepts(current_page)
                  THEN Append(emittedAt, file_handle.pos + 1)
                  ELSE emittedAt
  /\ current_page' = EmptyDict
  /\ in_revision' = FALSE
  /\ in_text' = FALSE
  /\ is_redirect' = FALSE
  /\ text_lines' = <<>>
  /\ file_handle' = NextLine
  /\ UNCHANGED <<args, dump, pc, context, output, discarded, printed,
                 output_file, main, others>>

FbOther ==
  /\ HasLine
  /\ ~FbBeforeInText /\ ~FbIsInText /\ ~FbIsTitle /\ ~FbIsId /\ ~FbIsPageClose
  /\ file_handle' = NextLine
  /\ UNCHANGED <<args, dump, pc, context, current_page, in_revision, in_text,
                 is_redirect, text_lines, articles, output, emittedAt,
                 discarded, printed, output_file, main, others>>

\* the lines are exhausted: finally close the file
FbEndOfFile ==
  /\ pc = "fallback"
  /\ file_handle.pos = Len(dump)
  /\ file_handle' = [file_handle EXCEPT !.open = FALSE]
  /\ pc' = "save"
  /\ UNCHANGED <<args, dump, context, current_page, in_revision, in_text,
                 is_redirect, text_lines, articles, output, emittedAt,
                 discarded, printed, output_file, main, others>>

(***************************************************************************)
(* extract_titles_only: save the Articles, one record per line             *)
(***************************************************************************)
\* json.dumps escapes the characters a JSON string cannot hold raw
JsonEscapes == ("\n" :> "\\n") @@ ("\"" :> "\\\"") @@ ("\\" :> "\\\\")

json_escape(tok) == IF tok \in DOMAIN JsonEscapes THEN JsonEscapes[tok] ELSE tok

json_stringRaw(str) == <<"\"">> \o str \o <<"\"">>

\* a Python str as a JSON string
json_string(str) ==
  <<"\"">> \o [i \in 1..Len(str) |-> json_escape(str[i])] \o <<"\"">>

\* the keys of a record in insertion order: id, title, text
KeysInOrder(article) ==
  SelectSeq(<<"id", "title", "text">>, LAMBDA k : k \in DOMAIN article)

RECURSIVE json_members(_, _)
json_members(article, keys) ==
  IF keys = <<>>
  THEN <<>>
  ELSE json_string(<<Head(keys)>>) \o <<": ">> \o json_string(article[Head(keys)])
         \o (IF Tail(keys) = <<>> THEN <<>> ELSE <<", ">>)
         \o json_members(article, Tail(keys))

\* json.dumps(article, ensure_ascii=False)
json_dumps(article) ==
  <<"{">> \o json_members(article, KeysInOrder(article)) \o <<"}">>

\* f.write(json.dumps(article, ensure_ascii=False) + "\n") for every Article
RECURSIVE WriteAll(_)
WriteAll(arts) ==
  IF arts = <<>>
  THEN <<>>
  ELSE json_dumps(Head(arts)) \o <<NL>> \o WriteAll(Tail(arts))

\* the character an escape of a JSON string stands for
json_unescape(tok) ==
  IF \E raw \in DOMAIN JsonEscapes : JsonEscapes[raw] = tok
  THEN CHOOSE raw \in DOMAIN JsonEscapes : JsonEscapes[raw] = tok
  ELSE tok

SaveLastFirst ==
  LET last_first == [k \in 1..Len(articles) |-> articles[Len(articles) + 1 - k]] IN
  /\ pc = "save"
  /\ output' = last_first
  /\ output_file' = [exists |-> TRUE, content |-> WriteAll(last_first)]
  /\ printed' = printed \cup {"Saving titles", "Done! Extracted titles"}
  /\ pc' = "done"
  /\ UNCHANGED <<args, dump, context, file_handle, current_page, in_revision,
                 in_text, is_redirect, text_lines, articles, emittedAt, discarded,
                 main, others>>

Save ==
  /\ pc = "save"
  /\ output' = articles
  /\ output_file' = [exists |-> TRUE, content |-> WriteAll(articles)]
  /\ printed' = printed \cup {"Saving titles", "Done! Extracted titles"}
  /\ pc' = "done"
  /\ UNCHANGED <<args, dump, context, file_handle, current_page, in_revision,
                 in_text, is_redirect, text_lines, articles, emittedAt, discarded,
                 main, others>>

Next ==
  \/ OpenDump
  \/ StartPage
  \/ StartRevision
  \/ StartRedirect
  \/ StartOther
  \/ EndTitle
  \/ EndId
  \/ EndText
  \/ EndRevision
  \/ EndPage
  \/ EndOther
  \/ EndOfEvents
  \/ ParseError
  \/ FbBreak
  \/ FbRevisionOpen
  \/ FbRevisionClose
  \/ FbRedirect
  \/ FbTextOpen
  \/ FbInText
  \/ FbTitle
  \/ FbId
  \/ FbPageClose
  \/ FbOther
  \/ FbEndOfFile
  \/ Save

Spec == Init /\ [][Next]_vars

(***************************************************************************)
(* main and download_dump, on the default path (no --use-wikiextractor).   *)
(* main.disk tells whether the dump file is on disk ("partial": the file   *)
(* exists and holds the beginning of the dump only), main.net what the     *)
(* server answers to the download request ("interrupted": the transfer     *)
(* starts and breaks off, urlretrieve has created the file and raises).    *)
(***************************************************************************)
NetOutcomes == {"ok", "404", "500", "unreachable", "interrupted"}

download_dumpNotFoundReraised(disk, net) ==
  IF disk # "absent"
  THEN [result |-> "path", disk |-> disk]
  ELSE IF net = "ok"
  THEN [result |-> "path", disk |-> "present"]
  ELSE IF net \in {"404", "500"}
  THEN [result |-> "HTTPError", disk |-> disk]
  ELSE IF net = "interrupted"
  THEN [result |-> "ContentTooShortError", disk |-> "partial"]
  ELSE [result |-> "URLError", disk |-> disk]

\* download_dump(date): what the call returns or raises, and the disk after
download_dump(disk, net) ==
  IF disk # "absent"
  THEN [result |-> "path", disk |-> disk]
  ELSE IF net = "ok"
  THEN [result |-> "path", disk |-> "present"]
  ELSE IF net = "404"
  THEN [result |-> "FileNotFoundError", disk |-> disk]
  ELSE IF net = "500"
  THEN [result |-> "HTTPError", disk |-> disk]
  ELSE IF net = "interrupted"
  THEN [result |-> "ContentTooShortError", disk |-> "partial"]
  ELSE [result |-> "URLError", disk |-> disk]

\* if not args.skip_download: try: dump_path = download_dump(args.date)
MainDownload ==
  /\ main.pc = "args"
  /\ ~main.skip_download
  /\ LET r == download_dump(main.disk, main.net)
     IN \/ /\ r.result = "path"
           /\ main' = [main EXCEPT !.pc = "extract", !.disk = r.disk]
           /\ UNCHANGED printed
        \/ /\ r.result = "FileNotFoundError"
           /\ main' = [main EXCEPT !.pc = "returned"]
           /\ printed' = printed \cup {"Error: Dump file not found for date",
                                        "Available dates can be checked at"}
        \/ /\ r.result \in {"HTTPError", "URLError", "ContentTooShortError"}
           /\ main' = [main EXCEPT !.pc = "raised", !.exc = r.result, !.disk = r.disk]
           /\ UNCHANGED printed
  /\ UNCHANGED <<args, dump, pc, context, file_handle, current_page, in_revision,
                 in_text, is_redirect, text_lines, articles, output, emittedAt,
                 discarded, output_file, others>>

\* else: use the local file, if not dump_path.exists(): print the error, return
MainLocalDump ==
  /\ main.pc = "args"
  /\ main.skip_download
  /\ \/ /\ main.disk # "absent"
        /\ main' = [main EXCEPT !.pc = "extract"]
        /\ UNCHANGED printed
     \/ /\ main.disk = "absent"
        /\ main' = [main EXCEPT !.pc = "returned"]
        /\ printed' = printed \cup {"Error: Dump file not found"}
  /\ UNCHANGED <<args, dump, pc, context, file_handle, current_page, in_revision,
                 in_text, is_redirect, text_lines, articles, output, emittedAt,
                 discarded, output_file, others>>

\* extract_titles_only(dump_path, output_path, limit=..., ...) is called
MainExtract ==
  /\ main.pc = "extract"
  /\ pc = "main"
  /\ pc' = "start"
  /\ main' = [main EXCEPT !.pc = "extracting"]
  /\ UNCHANGED <<args, dump, context, file_handle, current_page, in_revision,
                 in_text, is_redirect, text_lines, articles, output, emittedAt,
                 discarded, printed, output_file, others>>

\* extract_titles_only has returned: main ends
MainReturn ==
  /\ main.pc = "extracting"
  /\ pc = "done"
  /\ main' = [main EXCEPT !.pc = "returned"]
  /\ UNCHANGED <<args, dump, pc, context, file_handle, current_page, in_revision,
                 in_text, is_redirect, text_lines, articles, output, emittedAt,
                 discarded, printed, output_file, others>>

\* the dumps main is run on: every page of the catalogue alone, the
\* scenario, and three dumps that take the fallback through its branches
MainDumps ==
  Catalogue \cup {<<>>, ScenarioDump, PAmp \o PCat, PMultilineText \o PAmp,
                  PKitty \o PAmp}

InitMain ==
  /\ args \in Args
  /\ dump \in MainDumps
  /\ pc = "main"
  /\ main \in [pc : {"args"}, skip_download : BOOLEAN, disk : {"absent", "present"},
               net : NetOutcomes, exc : {"none"}]
  /\ Locals
  /\ OthersIdle

NextMain ==
  \/ MainDownload
  \/ MainLocalDump
  \/ MainExtract
  \/ MainReturn
  \/ Next

SpecMain == InitMain /\ [][NextMain]_vars

(***************************************************************************)
(* Reading the dump may raise an exception that is no ET.ParseError (an    *)
(* OSError or EOFError of the bz2 stream, a UnicodeDecodeError), in the    *)
(* structured pass and in the fallback scan.  No except clause matches it: *)
(* the finally clause closes the file and the exception leaves             *)
(* extract_titles_only, and main, which does not catch it.                 *)
(***************************************************************************)
ReadErrorFallsBack ==
  /\ pc = "structured"
  /\ file_handle.open
  /\ file_handle' = [open |-> TRUE, pos |-> 0, opens |-> file_handle.opens + 1]
  /\ articles' = <<>>
  /\ emittedAt' = <<>>
  /\ current_page' = EmptyDict
  /\ in_revision' = FALSE
  /\ in_text' = FALSE
  /\ is_redirect' = FALSE
  /\ text_lines' = <<>>
  /\ context' = NoContext
  /\ pc' = "fallback"
  /\ UNCHANGED <<args, dump, output, discarded, printed, output_file, main, others>>

ReadError ==
  /\ pc \in {"structured", "fallback"}
  /\ file_handle.open
  /\ file_handle' = [file_handle EXCEPT !.open = FALSE]
  /\ pc' = "raised"
  /\ main' = [main EXCEPT !.pc = "raised", !.exc = "OSError"]
  /\ UNCHANGED <<args, dump, context, current_page, in_revision, in_text,
                 is_redirect, text_lines, articles, output, emittedAt,
                 discarded, printed, output_file, others>>

NextIO ==
  \/ ReadError
  \/ Next

\* extract_titles_only on the dumps of MainDumps, with reads that may fail
InitIO ==
  /\ args \in Args
  /\ dump \in MainDumps
  /\ pc = "start"
  /\ main = CallingExtractor
  /\ Locals
  /\ OthersIdle

SpecIO == InitIO /\ [][NextIO]_vars

Range(f) == {f[i] : i \in DOMAIN f}

(***************************************************************************)
(* extract_with_wikiextractor (main with --use-wikiextractor).             *)
(* json_files is what sorted(temp_dir.glob("**/wiki_*")) lists once        *)
(* WikiExtractor has run: a sequence of files, each a sequence of lines,   *)
(* each line a sequence of tokens.  wx holds the position of the function: *)
(* the file and the line it stands at, and whether temp_dir exists.        *)
(* emittedAt holds <<file, line>> of the line behind each record.          *)
(***************************************************************************)
MaxFiles == 2
MaxLines == 2

Whitespace == {" ", NL}

RECURSIVE lstrip(_)
lstrip(str) ==
  IF str # <<>> /\ Head(str) \in Whitespace THEN lstrip(Tail(str)) ELSE str

RECURSIVE rstrip(_)
rstrip(str) ==
  IF str # <<>> /\ str[Len(str)] \in Whitespace
  THEN rstrip(SubSeq(str, 1, Len(str) - 1))
  ELSE str

\* line.strip()
strip(str) == rstrip(lstrip(str))

\* a JSON document that is no object
JsonScalars == {"5", "null"}

IsJsonScalar(ln) == Len(ln) = 1 /\ ln[1] \in JsonScalars

JSONDecodeError == [kind |-> "JSONDecodeError", value |-> EmptyDict]

\* the closing quote of the string whose first character stands at i, or
\* 0 when the string is not terminated or holds a raw newline or backslash
RECURSIVE StringEnd(_, _)
StringEnd(ln, i) ==
  IF i > Len(ln)
  THEN 0
  ELSE IF ln[i] = "\""
  THEN i
  ELSE IF ln[i] \in DOMAIN JsonEscapes
  THEN 0
  ELSE StringEnd(ln, i + 1)

\* the string between the quotes at a and b, unescaped
StringValue(ln, a, b) == [i \in 1..(b - a - 1) |-> json_unescape(ln[a + i])]

\* the members of an object from the opening quote of a key at i: "key":
\* "value", then a comma and the next member, or the closing brace (a key
\* is one token)
RECURSIVE Members(_, _, _)
Members(ln, i, acc) ==
  IF i > Len(ln) \/ ln[i] # "\""
  THEN JSONDecodeError
  ELSE LET ke == StringEnd(ln, i + 1)
       IN IF ke = 0 \/ ke + 3 > Len(ln) \/ ln[ke + 1] # ": " \/ ln[ke + 2] # "\""
          THEN JSONDecodeError
          ELSE LET ve == StringEnd(ln, ke + 3)
                   name == StringValue(ln, i, ke)
                   key == IF Len(name) = 1 THEN name[1] ELSE ""
                   obj == Put(acc, key, StringValue(ln, ke + 2, ve))
               IN IF ve = 0 \/ ve + 1 > Len(ln)
                  THEN JSONDecodeError
                  ELSE IF ln[ve + 1] = "}"
                  THEN IF ve + 1 = Len(ln)
                       THEN [kind |-> "dict", value |-> obj]
                       ELSE JSONDecodeError
                  ELSE IF ln[ve + 1] = ", "
                  THEN Members(ln, ve + 2, obj)
                  ELSE JSONDecodeError

\* json.loads(line): a dict, a value that is no dict, or JSONDecodeError
loads(ln) ==
  IF IsJsonScalar(ln)
  THEN [kind |-> "scalar", value |-> EmptyDict]
  ELSE IF ln = <<"{", "}">>
  THEN [kind |-> "dict", value |-> EmptyDict]
  ELSE IF ln # <<>> /\ ln[1] = "{"
  THEN Members(ln, 2, EmptyDict)
  ELSE JSONDecodeError

\* one line of WikiExtractor's --json output
WikiExtractorKeys == <<"id", "revid", "url", "title", "text">>

Doc(id, title, text) ==
  LET doc == [key \in Range(WikiExtractorKeys) |->
                    CASE key = "id" -> id
                      [] key = "title" -> title
                      [] key = "text" -> text
                      [] key = "revid" -> <<"9">>
                      [] key = "url" -> <<"https://en.wikipedia.org/wiki?curid=", "1">>]
  IN <<"{">> \o json_members(doc, WikiExtractorKeys) \o <<"}">>

DCat == Doc(<<"1">>, TCat, <<"A cat.">>)
DBash == Doc(<<"5">>, TBash, <<"a", NL, "\"", "b", "\\">>)
DCategory == Doc(<<"2">>, TCategory, <<"x">>)
DDisambiguation == Doc(<<"3">>, TDisambiguation, <<"x">>)
DEmptyId == Doc(<<>>, TCat, <<"x">>)
DEmptyTitle == Doc(<<"7">>, <<>>, <<"x">>)
\* an object without the members title and text
DNoTitle == <<"{">> \o json_members([id |-> <<"8">>], <<"id">>) \o <<"}">>
\* an object without the member text
DNoText == <<"{">> \o json_members([id |-> <<"4">>, title |-> TKitty], <<"id", "title">>) \o <<"}">>
\* a line cut off inside the object
DTruncated == SubSeq(DCat, 1, 9)
DBlank == <<" ">>
DScalar == <<"5">>

JsonLines ==
  {DCat, <<" ">> \o DBash \o <<NL>>, DCategory, DDisambiguation, DEmptyId,
   DEmptyTitle, DNoTitle, DNoText, DTruncated, <<>>, DBlank, DScalar}

JsonFile == UNION {[1..n -> JsonLines] : n \in 0..MaxLines}

\* at most MaxFiles files of MaxLines lines in all
JsonFiles ==
  {fs \in UNION {[1..n -> JsonFile] : n \in 0..MaxFiles} : Len(Join(fs)) <= MaxLines}

\* the variables of extract_titles_only, which is not called on this path
titles_only ==
  <<dump, pc, context, file_handle, current_page, in_revision, in_text,
    is_redirect, text_lines, discarded>>

json_file == json_files[wx.file]
json_line == strip(json_file[wx.line])
article == loads(json_line)

\* extract_with_wikiextractor(dump_path, output_path, limit=...) is called
WxStart == [pc |-> "start", file |-> 0, line |-> 0, temp_dir |-> FALSE]

\* if not check_wikiextractor(): raise RuntimeError
WxNotInstalled ==
  /\ wx.pc = "start"
  /\ wx' = [wx EXCEPT !.pc = "raised"]
  /\ main' = [main EXCEPT !.pc = "raised", !.exc = "RuntimeError"]
  /\ UNCHANGED <<args, titles_only, articles, output, emittedAt, printed,
                 output_file, json_files, shot, pool>>

\* mkdtemp, subprocess.run(cmd, check=True) with exit status 0, glob
WxRun ==
  /\ wx.pc = "start"
  /\ wx' = [pc |-> "file", file |-> 1, line |-> 0, temp_dir |-> TRUE]
  /\ articles' = <<>>
  /\ printed' = printed \cup {"Running WikiExtractor", "Found extracted files"}
  /\ UNCHANGED <<args, titles_only, output, emittedAt, output_file, main,
                 json_files, shot, pool>>

\* subprocess.run raises CalledProcessError; finally: rmtree(temp_dir)
WxRunFails ==
  /\ wx.pc = "start"
  /\ wx' = [wx EXCEPT !.pc = "raised", !.temp_dir = FALSE]
  /\ printed' = printed \cup {"Running WikiExtractor"}
  /\ main' = [main EXCEPT !.pc = "raised", !.exc = "CalledProcessError"]
  /\ UNCHANGED <<args, titles_only, articles, output, emittedAt, output_file,
                 json_files, shot, pool>>

\* for json_file in json_files: with open(json_file) as f
WxOpenFile ==
  /\ wx.pc = "file"
  /\ wx.file <= Len(json_files)
  /\ wx' = [wx EXCEPT !.pc = "line", !.line = 1]
  /\ UNCHANGED <<args, titles_only, articles, output, emittedAt, printed,
                 output_file, main, json_files, shot, pool>>

\* the loop over the files is exhausted
WxNoMoreFiles ==
  /\ wx.pc = "file"
  /\ wx.file > Len(json_files)
  /\ wx' = [wx EXCEPT !.pc = "save"]
  /\ UNCHANGED <<args, titles_only, articles, output, emittedAt, printed,
                 output_file, main, json_files, shot, pool>>

\* limit and len(articles) >= limit
WxLimitReached(arts) == Truthy(limit) /\ Len(arts) >= limit

\* after the with block (line 221): break, or go to the next file
WxAfterFile(arts) ==
  IF WxLimitReached(arts)
  THEN [wx EXCEPT !.pc = "save"]
  ELSE [wx EXCEPT !.pc = "file", !.file = wx.file + 1]

\* after a line (line 215): break out of both loops, or go to the next line
WxAfterLine(arts) ==
  IF WxLimitReached(arts)
  THEN [wx EXCEPT !.pc = "save"]
  ELSE [wx EXCEPT !.line = wx.line + 1]

\* for line in f: the file is exhausted, or the limit is reached at the top
\* of the loop (line 192): both leave the with block for line 221
WxEndOfFile ==
  /\ wx.pc = "line"
  /\ wx.line > Len(json_file) \/ WxLimitReached(articles)
  /\ wx' = WxAfterFile(articles)
  /\ UNCHANGED <<args, titles_only, articles, output, emittedAt, printed,
                 output_file, main, json_files, shot, pool>>

WxAtLine ==
  /\ wx.pc = "line"
  /\ wx.line <= Len(json_file)
  /\ ~WxLimitReached(articles)

\* if not line: continue
WxBlank ==
  /\ WxAtLine
  /\ json_line = <<>>
  /\ wx' = [wx EXCEPT !.line = wx.line + 1]
  /\ UNCHANGED <<args, titles_only, articles, output, emittedAt, printed,
                 output_file, main, json_files, shot, pool>>

\* except json.JSONDecodeError: continue
WxUndecodable ==
  /\ WxAtLine
  /\ json_line # <<>>
  /\ article.kind = "JSONDecodeError"
  /\ wx' = [wx EXCEPT !.line = wx.line + 1]
  /\ UNCHANGED <<args, titles_only, articles, output, emittedAt, printed,
                 output_file, main, json_files, shot, pool>>

\* json.loads gives no dict: article.get raises AttributeError, which
\* except Exception takes: print, continue with the next file
WxNotObject ==
  /\ WxAtLine
  /\ article.kind = "scalar"
  /\ wx' = [wx EXCEPT !.pc = "file", !.file = wx.file + 1]
  /\ printed' = printed \cup {"Error reading"}
  /\ UNCHANGED <<args, titles_only, articles, output, emittedAt, output_file,
                 main, json_files, shot, pool>>

\* title and page_id and is_valid_article(title, is_redirect=False, ...)
WxAccepts(a) ==
  /\ Get(a, "title") # <<>>
  /\ Get(a, "id") # <<>>
  /\ is_valid_article(Get(a, "title"), FALSE, filter_disambiguation)

WxArticle(a) ==
  [id |-> Get(a, "id"), title |-> Get(a, "title"),
   text |-> Get(a, "text")]

\* the line is an object that passes the filters: articles.append
WxAppend ==
  /\ WxAtLine
  /\ article.kind = "dict"
  /\ WxAccepts(article.value)
  /\ articles' = Append(articles, WxArticle(article.value))
  /\ emittedAt' = Append(emittedAt, <<wx.file, wx.line>>)
  /\ wx' = WxAfterLine(articles')
  /\ UNCHANGED <<args, titles_only, output, printed, output_file, main,
                 json_files, shot, pool>>

\* the line is an object that does not pass the filters
WxFiltered ==
  /\ WxAtLine
  /\ article.kind = "dict"
  /\ ~WxAccepts(article.value)
  /\ wx' = WxAfterLine(articles)
  /\ UNCHANGED <<args, titles_only, articles, output, emittedAt, printed,
                 output_file, main, json_files, shot, pool>>

\* write the records, print, finally: rmtree(temp_dir); main returns
WxSave ==
  /\ wx.pc = "save"
  /\ output' = articles
  /\ output_file' = [exists |-> TRUE, content |-> WriteAll(articles)]
  /\ printed' = printed \cup {"Saving articles", "Done! Extracted articles"}
  /\ wx' = [wx EXCEPT !.pc = "done", !.temp_dir = FALSE]
  /\ main' = [main EXCEPT !.pc = "returned"]
  /\ UNCHANGED <<args, titles_only, articles, emittedAt, json_files, shot, pool>>

InitWikiExtractor ==
  /\ args \in [include_disambiguation : BOOLEAN, include_text : {TRUE},
               limit : {None} \cup 0..MaxLimit]
  /\ dump = <<>>
  /\ pc = "main"
  /\ main = CallingExtractor
  /\ Locals
  /\ json_files \in JsonFiles
  /\ wx = WxStart
  /\ shot = NotCapturing
  /\ pool = NoPool

NextWikiExtractor ==
  \/ WxNotInstalled
  \/ WxRun
  \/ WxRunFails
  \/ WxOpenFile
  \/ WxNoMoreFiles
  \/ WxEndOfFile
  \/ WxBlank
  \/ WxUndecodable
  \/ WxNotObject
  \/ WxAppend
  \/ WxFiltered
  \/ WxSave

SpecWikiExtractor == InitWikiExtractor /\ [][NextWikiExtractor]_vars

(***************************************************************************)
(* screenshot_wiki.py: capture_wiki_screenshot.  shot.attempt is the loop  *)
(* variable, shot.driver the driver object the local driver refers to (0   *)
(* for None), drivers being numbered as setup_driver creates them;         *)
(* shot.live holds the drivers not quit, shot.quits counts the calls of    *)
(* quit on each driver, shot.errors the exception of each failed attempt,  *)
(* shot.file tells whether the screenshot file exists.  driver.quit()      *)
(* itself does not raise (the Chrome driver swallows a failure to quit).   *)
(***************************************************************************)
max_retries == 3

\* the extractor is not part of this program
NoArgs == [include_disambiguation |-> FALSE, include_text |-> FALSE, limit |-> None]
NotRunning == [CallingExtractor EXCEPT !.pc = "idle"]

ExtractorIdle ==
  /\ args = NoArgs
  /\ dump = <<>>
  /\ pc = "idle"
  /\ main = NotRunning
  /\ Locals
  /\ json_files = <<>>
  /\ wx = NotExtracting

extractor ==
  <<args, titles_only, articles, output, emittedAt, output_file, main,
    json_files, wx>>

\* finally: if driver: driver.quit()
Quit(sh) ==
  IF sh.driver # 0
  THEN [sh EXCEPT !.live = sh.live \ {sh.driver},
                  !.quits[sh.driver] = sh.quits[sh.driver] + 1]
  ELSE sh

FailedRetriesOnce(sh, e) ==
  LET failed == Quit([sh EXCEPT !.errors = Append(sh.errors, e)])
  IN IF sh.attempt < max_retries - 2
     THEN [failed EXCEPT !.pc = "attempt", !.attempt = sh.attempt + 1]
     ELSE [failed EXCEPT !.pc = "raised", !.result = e]

\* except Exception as e: retry while attempt < max_retries - 1, else raise;
\* the finally clause runs in both cases
Failed(sh, e) ==
  LET failed == Quit([sh EXCEPT !.errors = Append(sh.errors, e)])
  IN IF sh.attempt < max_retries - 1
     THEN [failed EXCEPT !.pc = "attempt", !.attempt = sh.attempt + 1]
     ELSE [failed EXCEPT !.pc = "raised", !.result = e]

FailedMessages(sh) ==
  IF sh.attempt < max_retries - 1 THEN {"Retrying"} ELSE {"Failed after attempts"}

\* an attempt fails at position at with exception e
ShotFails(at, e) ==
  /\ shot.pc = at
  /\ shot' = Failed(shot, e)
  /\ printed' = printed \cup FailedMessages(shot)
  /\ UNCHANGED <<extractor, pool>>

\* driver = setup_driver(...)
ShotSetupDriver ==
  /\ shot.pc = "attempt"
  /\ shot' = [shot EXCEPT !.pc = "get",
                          !.created = shot.created + 1,
                          !.driver = shot.created + 1,
                          !.live = shot.live \cup {shot.created + 1},
                          !.quits = Append(shot.quits, 0)]
  /\ printed' = printed \cup {"Loading page"}
  /\ UNCHANGED <<extractor, pool>>

\* setup_driver raises: driver keeps the value of the attempt before
ShotSetupFails == ShotFails("attempt", "WebDriverException: setup")

\* driver.get(url); time.sleep(3)
ShotGet ==
  /\ shot.pc = "get"
  /\ shot' = [shot EXCEPT !.pc = "check"]
  /\ UNCHANGED <<extractor, printed, pool>>

ShotGetFails == ShotFails("get", "WebDriverException: get")

\* the page is no maintenance page
ShotCheck ==
  /\ shot.pc = "check"
  /\ shot' = [shot EXCEPT !.pc = "capture"]
  /\ UNCHANGED <<extractor, printed, pool>>

\* raise Exception("Wikipedia maintenance page detected")
ShotMaintenance == ShotFails("check", "Wikipedia maintenance page detected")

\* capture_full_page_screenshot or driver.save_screenshot(screenshot_path)
ShotCapture ==
  /\ shot.pc = "capture"
  /\ shot' = [shot EXCEPT !.pc = "optimize", !.file = TRUE]
  /\ printed' = printed \cup {IF shot.full_page THEN "Capturing full page screenshot"
                                                ELSE "Capturing screenshot"}
  /\ UNCHANGED <<extractor, pool>>

ShotCaptureFails == ShotFails("capture", "WebDriverException: screenshot")

\* Image.open(screenshot_path) raises
ShotOptimizeFails == ShotFails("optimize", "UnidentifiedImageError")

\* the image is saved again; return screenshot_path; finally: driver.quit()
ShotReturn ==
  /\ shot.pc = "optimize"
  /\ shot' = [Quit(shot) EXCEPT !.pc = "returned", !.result = "screenshot_path"]
  /\ printed' = printed \cup {"Screenshot saved to"}
  /\ UNCHANGED <<extractor, pool>>

InitScreenshot ==
  /\ ExtractorIdle
  /\ shot \in {[NotCapturing EXCEPT !.pc = "attempt", !.full_page = b] : b \in BOOLEAN}
  /\ pool = NoPool

NextScreenshot ==
  \/ ShotSetupDriver
  \/ ShotSetupFails
  \/ ShotGet
  \/ ShotGetFails
  \/ ShotCheck
  \/ ShotMaintenance
  \/ ShotCapture
  \/ ShotCaptureFails
  \/ ShotOptimizeFails
  \/ ShotReturn

SpecScreenshot == InitScreenshot /\ [][NextScreenshot]_vars


(***************************************************************************)
(* download_dump called again and again for one date (main run again after *)
(* a failure).  main.calls holds what each call returned or raised.        *)
(***************************************************************************)
MaxCalls == 3

DownloadCall ==
  /\ main.pc = "download"
  /\ Len(main.calls) < MaxCalls
  /\ \E net \in NetOutcomes :
       LET r == download_dump(main.disk, net)
       IN /\ main' = [main EXCEPT !.disk = r.disk,
                                  !.net = net,
                                  !.exc = IF r.result = "path" THEN "none" ELSE r.result,
                                  !.calls = Append(main.calls, r.result)]
          /\ printed' = IF main.disk # "absent"
                        THEN {"Dump file already exists"}
                        ELSE IF r.result = "path"
                        THEN {"Downloading Wikipedia dump", "Download complete"}
                        ELSE {"Downloading Wikipedia dump"}
  /\ UNCHANGED <<args, titles_only, articles, output, emittedAt, output_file, others>>

InitDownload ==
  /\ args = NoArgs
  /\ dump = <<>>
  /\ pc = "idle"
  /\ main \in [pc : {"download"}, skip_download : {FALSE}, disk : {"absent", "present"},
               net : {"ok"}, exc : {"none"}, calls : {<<>>}]
  /\ Locals
  /\ OthersIdle

NextDownload == DownloadCall

SpecDownload == InitDownload /\ [][NextDownload]_vars

(***************************************************************************)
(* take_screenshot.py: the parallel screenshot job.  pool.existing_files   *)
(* is the listing of the screenshots directory when the job starts,        *)
(* pool.doc_ids_txt the lines of doc_ids.txt, pool.screenshots the         *)
(* directory as the workers write to it.  pool.queue holds the tasks of    *)
(* imap_unordered not handed out yet; pool.workers[w] is worker process w: *)
(* its global driver (0 before init_worker), the task it runs and the      *)
(* attempt of capture_screenshot.  pool.handed lists the workers each task *)
(* was handed to, pool.writes who wrote which file with which driver.  The *)
(* pool forks its workers, so every worker holds its own copy of the       *)
(* module's globals.                                                       *)
(***************************************************************************)
MaxDocs == 3
num_drivers == 5
capture_screenshot_max_retries == 5

DocIdNames == <<"1", "2", "3", "4", "5", "6", "7", "8">>
DocIds == {<<DocIdNames[k]>> : k \in 1..MaxDocs}

\* f"{doc_id}.png"
Png(doc_id) == doc_id \o <<".png">>

\* file.endswith(".png")
EndsWithPng(file) == file # <<>> /\ file[Len(file)] = ".png"

\* file.replace(".png", "")
ReplacePng(file) == SelectSeq(file, LAMBDA tok : tok # ".png")

\* a file of the directory that is no screenshot
OtherFile == <<"1", ".png", ".part">>

\* the (url, doc_id) of a target
Url(doc_id) == <<<<"https://en.wikipedia.org/wiki/">> \o doc_id, doc_id>>

Idle == <<>>

Workers == 1..num_drivers

\* the module level: list the directory, read doc_ids.txt, build the urls
Load ==
  /\ pool.pc = "load"
  /\ LET existing_doc_ids == {ReplacePng(file) : file \in {f \in pool.existing_files : EndsWithPng(f)}}
         target_doc_ids == {strip(ln) : ln \in pool.doc_ids_txt} \ existing_doc_ids
         urls == {Url(doc_id) : doc_id \in target_doc_ids}
     IN pool' = [pool EXCEPT !.pc = "pool",
                             !.existing_doc_ids = existing_doc_ids,
                             !.target_doc_ids = target_doc_ids,
                             !.urls = urls,
                             !.queue = urls,
                             !.handed = [t \in urls |-> <<>>]]
  /\ UNCHANGED <<extractor, printed, shot>>

\* Pool(num_drivers, initializer=init_worker): each worker sets its driver
StartPool ==
  /\ pool.pc = "pool"
  /\ pool' = [pool EXCEPT !.pc = "running",
                          !.workers = [w \in Workers |->
                                         [driver |-> w, task |-> Idle, attempt |-> 0]]]
  /\ UNCHANGED <<extractor, printed, shot>>

TakeLeavesTask(w) ==
  /\ pool.pc = "running"
  /\ pool.workers[w].task = Idle
  /\ \E t \in pool.queue :
       pool' = [pool EXCEPT !.workers[w].task = t,
                            !.workers[w].attempt = 0,
                            !.handed[t] = Append(pool.handed[t], w)]
  /\ UNCHANGED <<extractor, printed, shot>>

\* imap_unordered hands the next task to a worker that is free
Take(w) ==
  /\ pool.pc = "running"
  /\ pool.workers[w].task = Idle
  /\ \E t \in pool.queue :
       pool' = [pool EXCEPT !.queue = pool.queue \ {t},
                            !.workers[w].task = t,
                            !.workers[w].attempt = 0,
                            !.handed[t] = Append(pool.handed[t], w)]
  /\ UNCHANGED <<extractor, printed, shot>>

Busy(w) == pool.pc = "running" /\ pool.workers[w].task # Idle

\* driver.save_screenshot(os.path.join("screenshots", f"{doc_id}.png"))
Written(w) ==
  [file |-> Png(pool.workers[w].task[2]), worker |-> w, driver |-> pool.workers[w].driver]

\* an attempt succeeds: the file is written, break, the task is done
Capture(w) ==
  /\ Busy(w)
  /\ pool' = [pool EXCEPT !.workers[w].task = Idle,
                          !.workers[w].attempt = 0,
                          !.screenshots = pool.screenshots \cup {Written(w).file},
                          !.writes = pool.writes \cup {Written(w)}]
  /\ UNCHANGED <<extractor, printed, shot>>

\* an attempt raises, before the screenshot is saved or after it (Image.open)
AttemptRaises(w, after) ==
  IF after
  THEN [pool EXCEPT !.screenshots = pool.screenshots \cup {Written(w).file},
                    !.writes = pool.writes \cup {Written(w)}]
  ELSE pool

\* except: attempt < max_retries - 1: print under the lock, sleep, go on
Retry(w) ==
  /\ Busy(w)
  /\ pool.workers[w].attempt < capture_screenshot_max_retries - 1
  /\ \E after \in BOOLEAN :
       pool' = [AttemptRaises(w, after) EXCEPT !.workers[w].attempt = pool.workers[w].attempt + 1]
  /\ printed' = printed \cup {"Retry"}
  /\ UNCHANGED <<extractor, shot>>

\* except: the last attempt raises: print, the task is done
GiveUp(w) ==
  /\ Busy(w)
  /\ pool.workers[w].attempt = capture_screenshot_max_retries - 1
  /\ \E after \in BOOLEAN :
       pool' = [AttemptRaises(w, after) EXCEPT !.workers[w].task = Idle,
                                               !.workers[w].attempt = 0]
  /\ printed' = printed \cup {"Failed to capture screenshot"}
  /\ UNCHANGED <<extractor, shot>>

\* every task is done: the with block closes the pool
ClosePool ==
  /\ pool.pc = "running"
  /\ pool.queue = {}
  /\ \A w \in Workers : pool.workers[w].task = Idle
  /\ pool' = [pool EXCEPT !.pc = "closed"]
  /\ UNCHANGED <<extractor, printed, shot>>

InitPool ==
  /\ ExtractorIdle
  /\ shot = NotCapturing
  /\ \E existing \in SUBSET DocIds, targets \in SUBSET DocIds :
       pool = [NoPool EXCEPT !.pc = "load",
                             !.existing_files = {Png(doc_id) : doc_id \in existing} \cup {OtherFile},
                             !.screenshots = {Png(doc_id) : doc_id \in existing} \cup {OtherFile},
                             !.doc_ids_txt = {doc_id \o <<NL>> : doc_id \in targets}]

NextPool ==
  \/ Load
  \/ StartPool
  \/ \E w \in Workers : Take(w)
  \/ \E w \in Workers : Capture(w)
  \/ \E w \in Workers : Retry(w)
  \/ \E w \in Workers : GiveUp(w)
  \/ ClosePool

SpecPool == InitPool /\ [][NextPool]_vars

(***************************************************************************)
(* The pages of the dump, read off its lines.  A page is named by the line *)
(* of its </page>; it begins at the last <page> before that line.          *)
(***************************************************************************)
Min(a, b) == IF a < b THEN a ELSE b

PageCloseLines == {j \in 1..Len(dump) : Has(dump[j], "</page>")}

PageOpenLine(j) ==
  IF \E i \in 1..(j-1) : Has(dump[i], "<page>")
  THEN CHOOSE i \in 1..(j-1) :
         Has(dump[i], "<page>") /\ \A q \in (i+1)..(j-1) : ~Has(dump[q], "<page>")
  ELSE 0

PageBody(j) == (PageOpenLine(j) + 1)..(j - 1)

\* line i of page j lies inside a <revision> ... </revision>
InsideRevision(i, j) ==
  \E r \in PageBody(j) :
    /\ r < i
    /\ Has(dump[r], "<revision>")
    /\ \A q \in (r+1)..(i-1) : ~Has(dump[q], "</revision>")

\* the character data of the element <tag>...</tag> on one line
Content(ln, tag) ==
  Slice(ln, FindAfter(ln, {"<" \o tag \o ">"}), Find(ln, {"</" \o tag \o ">"}))

TitleLines(j) == {i \in PageBody(j) : Has(dump[i], "<title>") /\ ~InsideRevision(i, j)}
IdLines(j) == {i \in PageBody(j) : Has(dump[i], "<id>") /\ ~InsideRevision(i, j)}

PageTitle(j) ==
  IF TitleLines(j) = {}
  THEN <<>>
  ELSE Content(dump[CHOOSE i \in TitleLines(j) : \A q \in TitleLines(j) : q <= i], "title")

\* the first <id> outside a revision
PageId(j) ==
  IF IdLines(j) = {}
  THEN <<>>
  ELSE Content(dump[CHOOSE i \in IdLines(j) : \A q \in IdLines(j) : i <= q], "id")

PageIsRedirect(j) == \E i \in PageBody(j) : Has(dump[i], "<redirect />")

\* the text before the first colon of the title, <<>> without a colon
NamespacePrefix(title) ==
  IF \E i \in 1..Len(title) : title[i] = ":"
  THEN SubSeq(title, 1, (CHOOSE i \in 1..Len(title) :
                           title[i] = ":" /\ \A q \in 1..(i-1) : title[q] # ":") - 1)
  ELSE <<>>

HasColon(title) == \E i \in 1..Len(title) : title[i] = ":"

InNamespaces(title, names) ==
  HasColon(title) /\ \E ns \in names : NamespacePrefix(title) = <<ns>>

IsDisambiguationTitle(title) ==
  Len(title) > 0 /\ title[Len(title)] = "(disambiguation)"

PagePasses(j) ==
  /\ PageId(j) # <<>>
  /\ PageTitle(j) # <<>>
  /\ ~PageIsRedirect(j)
  /\ ~InNamespaces(PageTitle(j), excluded_namespaces)
  /\ (~args.include_disambiguation => ~IsDisambiguationTitle(PageTitle(j)))

Titles(arts) == [k \in 1..Len(arts) |-> arts[k]["title"]]

StructuredOnly == file_handle.opens = 1
FellBack == file_handle.opens = 2

\* the parser stands at the close of a page
AtPageClose ==
  \/ HasEvent("end") /\ EndIsPage
  \/ HasLine /\ FbIsPageClose

Appended == Len(articles') = Len(articles) + 1

C2_NoRedirectEmitted ==
  \A k \in 1..Len(emittedAt) : ~PageIsRedirect(emittedAt[k])

C2_Witness ==
  /\ pc = "done" /\ FellBack /\ limit = None
  /\ args.include_disambiguation /\ args.include_text
  /\ \E j \in PageCloseLines :
       PageIsRedirect(j) /\ PageTitle(j) # <<>> /\ PageId(j) # <<>>
  /\ Len(output) = 1

(***************************************************************************)
(* C3: no Article is emitted for a title "<X>:<rest>" where X is one of    *)
(* Template, Category, File, Image, Help, Wikipedia, Portal, Book, Draft,  *)
(* User, MediaWiki, Module, Media, Special, Talk or the "X talk" variant   *)
(* of any of them.                                                         *)
(***************************************************************************)
ClaimedNamespaces ==
  {"Template", "Category", "File", "Image", "Help", "Wikipedia", "Portal",
   "Book", "Draft", "User", "MediaWiki", "Module", "Media", "Special", "Talk",
   "Template talk", "Category talk", "File talk", "Image talk", "Help talk",
   "Wikipedia talk", "Portal talk", "Book talk", "Draft talk", "User talk",
   "MediaWiki talk", "Module talk", "Media talk", "Special talk"}

C3_NoNamespaceEmitted ==
  \A k \in 1..Len(articles) :
    ~InNamespaces(articles[k]["title"], ClaimedNamespaces)

(***************************************************************************)
(* C4: a colon alone never causes rejection: when a page closes that the   *)
(* parser holds as non-redirect, with a non-empty id and a title whose     *)
(* prefix before the first colon is no excluded namespace, and the title   *)
(* is not filtered as a disambiguation page, an Article with that title is *)
(* appended; in the structured pass and in the fallback.                   *)
(***************************************************************************)
C4_ColonNotRejected ==
  [][(/\ AtPageClose
      /\ ~is_redirect
      /\ Get(current_page, "id") # <<>>
      /\ HasColon(Get(current_page, "title"))
      /\ ~InNamespaces(Get(current_page, "title"), excluded_namespaces)
      /\ ~(~args.include_disambiguation
             /\ IsDisambiguationTitle(Get(current_page, "title"))))
     => (/\ Appended
         /\ articles'[Len(articles')]["title"] = Get(current_page, "title"))]_vars

C4_Witness ==
  /\ pc = "done"
  /\ \E k \in 1..Len(output) : output[k]["title"] = TBash

(***************************************************************************)
(* C5: with --include-disambiguation absent (filter on) no page whose      *)
(* title ends in "(disambiguation)" is appended; with it given (filter     *)
(* off) such a page is appended when its other fields are valid; and a     *)
(* page whose title does not end so is appended or not regardless of the   *)
(* setting, so the output without the filter is the output with it plus    *)
(* the disambiguation pages.                                               *)
(***************************************************************************)
OtherFieldsValid ==
  /\ Get(current_page, "id") # <<>>
  /\ Get(current_page, "title") # <<>>
  /\ ~is_redirect
  /\ ~InNamespaces(Get(current_page, "title"), excluded_namespaces)

C5_DisambiguationFilter ==
  [][AtPageClose =>
       IF IsDisambiguationTitle(Get(current_page, "title"))
       THEN IF args.include_disambiguation
            THEN Appended <=> OtherFieldsValid
            ELSE articles' = articles
       ELSE Appended <=> OtherFieldsValid]_vars

C5_Witness ==
  /\ pc = "done" /\ args.include_disambiguation
  /\ \E k \in 1..Len(output) : output[k]["title"] = TDisambiguation

(***************************************************************************)
(* C6: the id of every emitted Article is the value of the first <id> of   *)
(* its page that lies outside a revision; in the structured pass and in    *)
(* the fallback.                                                           *)
(***************************************************************************)
C6_FirstIdOutsideRevision ==
  \A k \in 1..Len(articles) : articles[k]["id"] = PageId(emittedAt[k])

(***************************************************************************)
(* C7: with a limit N >= 0 set, exactly min(N, totalValidArticles) records *)
(* are written, totalValidArticles being the number of pages of the dump   *)
(* that pass the filters.                                                  *)
(***************************************************************************)
TotalValidArticles == Cardinality({j \in PageCloseLines : PagePasses(j)})

C7_ExactlyMinLimitTotal ==
  (pc = "done" /\ limit # None) => Len(output) = Min(limit, TotalValidArticles)

(***************************************************************************)
(* C8: with a limit N >= 1, once the Nth Article has been appended no      *)
(* parse event and no line is processed any more: the iterparse context,   *)
(* the per-page state and the Articles never change again, and the output  *)
(* written is those N Articles; in the structured pass and the fallback.   *)
(***************************************************************************)
C8_StopsAtLimit ==
  [][(limit >= 1 /\ Len(articles) >= limit) =>
       /\ UNCHANGED <<context, current_page, in_revision, in_text, is_redirect,
                      text_lines, articles, emittedAt>>
       /\ pc' \in {"save", "done"}
       /\ (pc' = "done" => output' = articles)]_vars

C8_Witness ==
  /\ pc = "done" /\ FellBack /\ limit = 1
  /\ Len(output) = 1
  /\ file_handle.pos < Len(dump)
  /\ \E j \in PageCloseLines : j > file_handle.pos /\ PagePasses(j)

(***************************************************************************)
(* C9: per-page state is reset at every <page> boundary: the title and the *)
(* id of every emitted Article are values of a <title> and an <id> of the  *)
(* one page at whose </page> it is emitted, also when an earlier page      *)
(* lacks its </page>.                                                      *)
(***************************************************************************)
C9_FieldsFromOnePage ==
  \A k \in 1..Len(articles) :
    /\ \E i \in PageBody(emittedAt[k]) :
         Has(dump[i], "<title>") /\ Content(dump[i], "title") = articles[k]["title"]
    /\ \E i \in PageBody(emittedAt[k]) :
         Has(dump[i], "<id>") /\ Content(dump[i], "id") = articles[k]["id"]

(***************************************************************************)
(* C10: the text of an emitted Article is the content of a <text> element  *)
(* inside a revision of its page, and nothing else.                        *)
(***************************************************************************)
TextElements(j) ==
  {ie \in PageBody(j) \X PageBody(j) :
     /\ ie[1] <= ie[2]
     /\ Has(dump[ie[1]], "<text>") /\ InsideRevision(ie[1], j)
     /\ Has(dump[ie[2]], "</text>")
     /\ \A q \in ie[1]..(ie[2]-1) : ~Has(dump[q], "</text>")}

\* the character data between <text> on line i and </text> on line e
TextContent(i, e) ==
  IF i = e
  THEN Content(dump[i], "text")
  ELSE Slice(dump[i], FindAfter(dump[i], {"<text>"}), Len(dump[i]))
         \o Join(SubSeq(dump, i + 1, e - 1))
         \o Slice(dump[e], 0, Find(dump[e], {"</text>"}))

RevisionTexts(j) == {TextContent(ie[1], ie[2]) : ie \in TextElements(j)}

C10_TextOnlyFromRevisionText ==
  \A k \in 1..Len(articles) :
    "text" \in DOMAIN articles[k] => articles[k]["text"] \in RevisionTexts(emittedAt[k])

(***************************************************************************)
(* C11: the fallback reproduces the structured pass.  On a dump whose page *)
(* blocks are all closed, the Articles the fallback emits for the pages    *)
(* that close before the line at which the structured pass failed are the  *)
(* Articles the structured pass had collected for those pages, in the same *)
(* order; also for a page with an empty first <id>, an empty <title>, an   *)
(* empty or self-closing <text> and several ids.                           *)
(***************************************************************************)
AllPagesClosed ==
  \A i \in 1..Len(dump) :
    Has(dump[i], "<page>") =>
      \E j \in (i+1)..Len(dump) :
        /\ Has(dump[j], "</page>")
        /\ \A q \in (i+1)..j : ~Has(dump[q], "<page>")

\* the Articles of arts emitted at a line before line n
EmittedBefore(arts, at, n) ==
  SubSeq(arts, 1, Cardinality({k \in 1..Len(at) : at[k] < n}))

C11_FallbackReproducesStructured ==
  (pc = "done" /\ FellBack /\ AllPagesClosed) =>
    EmittedBefore(output, emittedAt, discarded.line) = discarded.articles

(***************************************************************************)
(* C12: every Article collected and every record written has a non-empty   *)
(* id and a non-empty title and no key other than id, title and text; a    *)
(* record gets a text key exactly when include_text is on and a text was   *)
(* captured for the page being closed, so with include_text off no record  *)
(* carries a text key.  In the structured pass and in the fallback.        *)
(***************************************************************************)
RecordShape(a) ==
  /\ {"id", "title"} \subseteq DOMAIN a
  /\ DOMAIN a \subseteq {"id", "title", "text"}
  /\ a["id"] # <<>>
  /\ a["title"] # <<>>
  /\ "text" \in DOMAIN a => include_text

C12_RecordShape ==
  [][/\ \A k \in 1..Len(articles') : RecordShape(articles'[k])
     /\ \A k \in 1..Len(output') : RecordShape(output'[k])
     /\ (AtPageClose /\ Appended) =>
          ("text" \in DOMAIN articles'[Len(articles')]
             <=> (include_text /\ "text" \in DOMAIN current_page))]_vars

C12_Witness ==
  /\ pc = "done"
  /\ FellBack
  /\ include_text
  /\ \E k \in 1..Len(output) : "text" \in DOMAIN output[k]
  /\ \E k \in 1..Len(output) : "text" \notin DOMAIN output[k]

UnclosedPages ==
  {i \in 1..Len(dump) :
     /\ Has(dump[i], "<page>")
     /\ ~\E j \in (i+1)..Len(dump) :
           /\ Has(dump[j], "</page>")
           /\ \A q \in (i+1)..j : ~Has(dump[q], "<page>")}

\* the lines of the unclosed block opened at line i
UnclosedBlock(i) ==
  {l \in (i+1)..Len(dump) : \A q \in (i+1)..l : ~Has(dump[q], "<page>")}

C14_MalformedBlockSkipped ==
  pc = "done" =>
    /\ \A i \in UnclosedPages : \A l \in UnclosedBlock(i) : \A k \in 1..Len(output) :
         /\ Has(dump[l], "<title>") => output[k]["title"] # Content(dump[l], "title")
         /\ Has(dump[l], "<id>") => output[k]["id"] # Content(dump[l], "id")
    /\ (UnclosedPages # {} /\ ~Truthy(limit)) =>
         \A j \in PageCloseLines :
           PagePasses(j) =>
             \E k \in 1..Len(output) :
               /\ emittedAt[k] = j
               /\ output[k]["title"] = PageTitle(j)
               /\ output[k]["id"] = PageId(j)

(***************************************************************************)
(* C15: no retry of a partial parse.  The dump is opened at the start and  *)
(* once more, from its first line, when the structured pass fails, and at  *)
(* no other step; at the failure the Articles of the structured pass are   *)
(* dropped and the per-page state is empty; the scan never goes back to    *)
(* the structured pass; and no page has two records among the Articles or  *)
(* in the output.                                                          *)
(***************************************************************************)
StructuredFails == pc = "structured" /\ HasEvent("error")

C15_NoRetry ==
  [][/\ file_handle'.opens <= 2
     /\ file_handle'.opens # file_handle.opens => (pc = "start" \/ StructuredFails)
     /\ StructuredFails =>
          /\ file_handle' = [open |-> TRUE, pos |-> 0, opens |-> 2]
          /\ articles' = <<>>
          /\ current_page' = EmptyDict
          /\ ~in_revision' /\ ~in_text' /\ ~is_redirect'
          /\ text_lines' = <<>>
     /\ pc = "fallback" => pc' \in {"fallback", "save"}
     /\ Len(articles') = Len(emittedAt')
     /\ \A k \in 1..Len(emittedAt') : \A m \in 1..Len(emittedAt') :
          k # m => emittedAt'[k] # emittedAt'[m]
     /\ pc' = "done" => output' = articles']_vars

C15_Witness ==
  /\ pc = "done"
  /\ FellBack
  /\ \E k \in 1..Len(discarded.articles) : \E m \in 1..Len(output) :
       /\ discarded.emittedAt[k] = emittedAt[m]
       /\ discarded.articles[k] = output[m]

(***************************************************************************)
(* C16: an unavailable input is fatal and "not found" is told apart.  When *)
(* the dump is not on disk and cannot be downloaded, or --skip-download is *)
(* given, main never calls the extractor and no output file is written:    *)
(* on HTTP 404 download_dump raises FileNotFoundError and main prints the  *)
(* error with the pointer to the available dates and returns; any other    *)
(* download error leaves main as the exception it is, with nothing         *)
(* printed; with --skip-download the missing file is reported and main     *)
(* returns.                                                                *)
(***************************************************************************)
InputUnavailable ==
  main.disk = "absent" /\ (main.skip_download \/ main.net # "ok")

C16_InputUnavailableIsFatal ==
  InputUnavailable =>
    /\ pc = "main"
    /\ ~output_file.exists
    /\ main.pc \in {"args", "returned", "raised"}
    /\ main.pc # "args" =>
         IF main.skip_download
         THEN /\ main.pc = "returned"
              /\ main.exc = "none"
              /\ printed = {"Error: Dump file not found"}
         ELSE IF main.net = "404"
         THEN /\ download_dump(main.disk, main.net).result = "FileNotFoundError"
              /\ main.pc = "returned"
              /\ main.exc = "none"
              /\ printed = {"Error: Dump file not found for date",
                            "Available dates can be checked at"}
         ELSE /\ main.pc = "raised"
              /\ main.exc = (IF main.net = "500" THEN "HTTPError" ELSE "URLError")
              /\ printed = {}

C16_Witness ==
  /\ main.pc = "returned"
  /\ ~main.skip_download
  /\ main.net = "404"
  /\ "Available dates can be checked at" \in printed
  /\ pc = "main"

(***************************************************************************)
(* C17: a run that extracts no Article ends without a crash and reports    *)
(* the empty result as a warning instead of the message of a normal        *)
(* success.                                                                *)
(***************************************************************************)
C17_EmptyResultReported ==
  (pc = "done" /\ output = <<>>) =>
    /\ "Warning: No articles extracted" \in printed
    /\ "Done! Extracted titles" \notin printed

(***************************************************************************)
(* C18: round trip.  The output file holds one line for each Article       *)
(* written, in order, each ended by the only newline of the line, and      *)
(* parsing a line back as JSON gives the Article it was written from: the  *)
(* same keys with the same values, also for a text that holds newlines,    *)
(* quotes and backslashes.                                                 *)
(***************************************************************************)
\* the k-th smallest number of the set S
Nth(S, k) == CHOOSE x \in S : Cardinality({y \in S : y < x}) = k - 1

LineEnds(content) == {i \in 1..Len(content) : content[i] = NL}

\* line k of the file, without its newline
FileLine(content, k) ==
  SubSeq(content,
         IF k = 1 THEN 1 ELSE Nth(LineEnds(content), k - 1) + 1,
         Nth(LineEnds(content), k) - 1)

\* the quotes that delimit the strings of a JSON line
Quotes(ln) == {i \in 1..Len(ln) : ln[i] = "\""}

\* the n-th string of a JSON line, unescaped
JsonString(ln, n) ==
  LET a == Nth(Quotes(ln), 2 * n - 1)
      b == Nth(Quotes(ln), 2 * n)
  IN [i \in 1..(b - a - 1) |-> json_unescape(ln[a + i])]

\* json.loads(line) for an object of string members: strings come in
\* pairs, a key and its value
json_loads(ln) ==
  LET n == Cardinality(Quotes(ln)) \div 4
      Key(m) == JsonString(ln, 2 * m - 1)[1]
  IN [key \in {Key(m) : m \in 1..n} |->
        JsonString(ln, 2 * (CHOOSE m \in 1..n : Key(m) = key))]

C18_RoundTrip ==
  output_file.exists =>
    LET content == output_file.content
    IN /\ Cardinality(LineEnds(content)) = Len(output)
       /\ content # <<>> => content[Len(content)] = NL
       /\ \A k \in 1..Len(output) :
            /\ Cardinality(Quotes(FileLine(content, k))) = 4 * Cardinality(DOMAIN output[k])
            /\ json_loads(FileLine(content, k)) = output[k]

C18_Witness ==
  /\ pc = "done"
  /\ Len(output) = 2
  /\ \E k \in 1..Len(output) :
       /\ "text" \in DOMAIN output[k]
       /\ Has(output[k]["text"], NL)
       /\ Has(output[k]["text"], "\"")
       /\ Has(output[k]["text"], "\\")

(***************************************************************************)
(* C19: a <title> or an <id> inside a revision is not captured.  When the  *)
(* element handled by a step stands on a line between a <revision> and the *)
(* next </revision> (or </page>), the step leaves current_page as it is;   *)
(* in the structured pass and in the fallback scan.                        *)
(***************************************************************************)
InRevisionScope(i) ==
  \E r \in 1..(i-1) :
    /\ Has(dump[r], "<revision>")
    /\ \A q \in (r+1)..(i-1) : ~Has(dump[q], "</revision>") /\ ~Has(dump[q], "</page>")

\* the step handles a <title> or an <id> element that stands on line i
HandlesFieldAt(i) ==
  \/ /\ HasEvent("end")
     /\ TagEndsWith(elem.tag, "title") \/ TagEndsWith(elem.tag, "id")
     /\ elem.line = i
  \/ /\ HasLine
     /\ Has(line, "<title>") \/ Has(line, "<id>")
     /\ file_handle.pos + 1 = i

C19_NoCaptureInRevision ==
  [][\A i \in 1..Len(dump) :
       (HandlesFieldAt(i) /\ InRevisionScope(i)) => current_page' = current_page]_vars

C19_Witness ==
  /\ pc = "done"
  /\ FellBack
  /\ \E k \in 1..Len(output) :
       /\ output[k]["title"] = <<"Ibis">>
       /\ output[k]["id"] = <<"14">>
       /\ \E i \in PageBody(emittedAt[k]) : Has(dump[i], "<title>") /\ InRevisionScope(i)
       /\ \E i \in PageBody(emittedAt[k]) : Has(dump[i], "<id>") /\ InRevisionScope(i)

(***************************************************************************)
(* C20: the "inside text" mode of the fallback scan, with text capture on. *)
(* As claimed: after a line that opens a <text> inside a revision and does *)
(* not close it, and until a line with </text>, the scan is in the mode,   *)
(* every line is appended whole to text_lines and changes neither          *)
(* current_page nor the redirect flag, and at the </text> line the buffer  *)
(* ends with exactly the content between <text> and </text>.               *)
(***************************************************************************)
OpensText(t) ==
  /\ Has(dump[t], "<text>")
  /\ ~Has(dump[t], "</text>")
  /\ InRevisionScope(t)

\* the text elements opened before line i with no </text> before line i
OpenTextBefore(i) ==
  {t \in 1..(i-1) : OpensText(t) /\ \A q \in (t+1)..(i-1) : ~Has(dump[q], "</text>")}

EndsWith(s, c) ==
  Len(s) >= Len(c) /\ SubSeq(s, Len(s) - Len(c) + 1, Len(s)) = c

C20_StaysInTextUntilClosed ==
  [][\A t \in OpenTextBefore(file_handle.pos + 1) :
       (HasLine /\ include_text) =>
         /\ in_text
         /\ UNCHANGED <<current_page, is_redirect, in_revision>>
         /\ IF Has(line, "</text>")
            THEN /\ ~in_text'
                 /\ EndsWith(Join(text_lines'), TextContent(t, file_handle.pos + 1))
            ELSE /\ in_text'
                 /\ text_lines' = Append(text_lines, line)]_vars

(***************************************************************************)
(* C20 as the code has it: the mode also ends, with no </text>, at a line  *)
(* with <revision> or </revision>; until then every line that has neither  *)
(* a <redirect nor a <text tag is appended whole and changes neither       *)
(* current_page nor the redirect flag; and at a </text> line reached with  *)
(* every line in between appended the buffer ends with exactly the content *)
(* between <text> and </text>.                                             *)
(***************************************************************************)
EndsRevisionScope(ln) == Has(ln, "<revision>") \/ Has(ln, "</revision>")

\* the text elements opened before line i and open in the scanner's sense
OpenTextInRevisionBefore(i) ==
  {t \in OpenTextBefore(i) : \A q \in (t+1)..(i-1) : ~EndsRevisionScope(dump[q])}

TakenByEarlierBranch(ln) == HasAny(ln, TagsWithRedirect \cup TagsWithText)

C20_StaysInTextUntilClosedOrRevisionEnd ==
  [][\A t \in OpenTextInRevisionBefore(file_handle.pos + 1) :
       (HasLine /\ include_text) =>
         /\ in_text
         /\ IF EndsRevisionScope(line)
            THEN ~in_text'
            ELSE IF TakenByEarlierBranch(line)
            THEN TRUE
            ELSE /\ UNCHANGED <<current_page, is_redirect, in_revision>>
                 /\ IF Has(line, "</text>")
                    THEN /\ ~in_text'
                         /\ (\A q \in (t+1)..file_handle.pos :
                               ~TakenByEarlierBranch(dump[q]))
                              => EndsWith(Join(text_lines'),
                                          TextContent(t, file_handle.pos + 1))
                    ELSE /\ in_text'
                         /\ text_lines' = Append(text_lines, line)]_vars

C20_Witness ==
  /\ pc = "done"
  /\ FellBack
  /\ \E k \in 1..Len(output) : \E ie \in TextElements(emittedAt[k]) :
       /\ ie[2] >= ie[1] + 2
       /\ "text" \in DOMAIN output[k]
       /\ output[k]["text"] = TextContent(ie[1], ie[2])

(***************************************************************************)
(* C21: an exception other than ET.ParseError raised while the dump is     *)
(* read is propagated and not retried.  The structured pass goes over to   *)
(* the fallback only at a ParseError and the dump is opened again only     *)
(* there; the step at which a read fails closes the file, opens nothing,   *)
(* leaves no output file, and hands the exception to the caller; and no    *)
(* step follows it.                                                        *)
(***************************************************************************)
C21_ReadErrorPropagates ==
  [][/\ (pc = "structured" /\ pc' = "fallback") => HasEvent("error")
     /\ file_handle'.opens # file_handle.opens => (pc = "start" \/ StructuredFails)
     /\ pc' = "raised" =>
          /\ pc \in {"structured", "fallback"}
          /\ ~file_handle'.open
          /\ file_handle'.opens = file_handle.opens
          /\ output_file' = NoFile
          /\ output' = <<>>
          /\ main'.pc = "raised"
          /\ main'.exc = "OSError"
     /\ pc = "raised" => FALSE
     /\ output_file'.exists => pc' = "done"]_vars

C21_Witness ==
  /\ pc = "raised"
  /\ FellBack
  /\ articles # <<>>
  /\ ~file_handle.open
  /\ ~output_file.exists

(***************************************************************************)
(* C22: the WikiExtractor path applies the same filters.  When             *)
(* extract_with_wikiextractor has returned, a record was written for a     *)
(* line if and only if the line is valid JSON with non-empty id and title, *)
(* is_valid_article(title, False, filter_disambiguation) holds and, when a *)
(* limit is given, fewer than limit records were collected before the      *)
(* line; and a step at a blank or undecodable line goes on to the next     *)
(* line of the same file and changes nothing else.                         *)
(***************************************************************************)
JsonLineIds == {<<f, l>> : f \in 1..MaxFiles, l \in 1..MaxLines}

IsLine(i) == i[1] <= Len(json_files) /\ i[2] <= Len(json_files[i[1]])

Before(i, j) == i[1] < j[1] \/ (i[1] = j[1] /\ i[2] < j[2])

LineAt(i) == strip(json_files[i[1]][i[2]])

ValidLine(i) ==
  /\ loads(LineAt(i)).kind = "dict"
  /\ Get(loads(LineAt(i)).value, "id") # <<>>
  /\ Get(loads(LineAt(i)).value, "title") # <<>>
  /\ is_valid_article(Get(loads(LineAt(i)).value, "title"), FALSE, filter_disambiguation)

CollectedBefore(i) == Cardinality({j \in Range(emittedAt) : Before(j, i)})

SkippedLine == LineAt(<<wx.file, wx.line>>) = <<>> \/ loads(LineAt(<<wx.file, wx.line>>)).kind = "JSONDecodeError"

C22_SameFiltersAsDirectParsing ==
  /\ [](wx.pc = "done" =>
          /\ Len(output) = Len(emittedAt)
          /\ \A i \in JsonLineIds :
               IsLine(i) =>
                 ((i \in Range(emittedAt)) <=>
                    /\ ValidLine(i)
                    /\ limit # None => CollectedBefore(i) < limit))
  /\ [][(wx.pc = "line" /\ wx.line <= Len(json_files[wx.file]) /\ SkippedLine) =>
          /\ wx' = [wx EXCEPT !.line = wx.line + 1]
          /\ UNCHANGED <<articles, output, output_file, printed>>]_vars

(***************************************************************************)
(* C23: capture_wiki_screenshot makes at most 3 attempts.  A step that     *)
(* ends an attempt with success returns the screenshot path and no step    *)
(* follows; a step at which the first or the second attempt fails starts   *)
(* the next attempt; a step at which the third attempt fails raises the    *)
(* error of that attempt; and whenever an attempt starts or the function   *)
(* has exited, every driver created so far has been quit.                  *)
(***************************************************************************)
ShotExited == shot.pc \in {"returned", "raised"}

AttemptFails == Len(shot'.errors) = Len(shot.errors) + 1

C23_AtMostThreeAttempts ==
  /\ [](/\ shot.attempt \in 0..2
        /\ shot.created <= 3
        /\ Len(shot.errors) <= 3
        /\ shot.pc \in {"attempt", "returned", "raised"} =>
             /\ shot.live = {}
             /\ \A dr \in 1..shot.created : shot.quits[dr] >= 1
        /\ shot.pc = "returned" => shot.result = "screenshot_path" /\ shot.file
        /\ shot.pc = "raised" =>
             /\ Len(shot.errors) = 3
             /\ shot.result = shot.errors[3])
  /\ [][/\ ~ShotExited
        /\ shot'.pc = "returned" =>
             /\ shot.pc = "optimize"
             /\ shot'.errors = shot.errors
             /\ shot'.attempt = shot.attempt
        /\ (AttemptFails /\ shot.attempt < 2) =>
             /\ shot'.pc = "attempt"
             /\ shot'.attempt = shot.attempt + 1
             /\ "Retrying" \in printed'
        /\ (AttemptFails /\ shot.attempt = 2) =>
             /\ shot'.pc = "raised"
             /\ shot'.result = shot'.errors[3]
        /\ shot'.pc = "raised" => AttemptFails
        /\ shot'.attempt # shot.attempt => AttemptFails]_vars

C23_Witness ==
  /\ shot.pc = "raised"
  /\ shot.created = 2
  /\ shot.errors[2] = "WebDriverException: setup"
  /\ shot.errors[3] = "UnidentifiedImageError"
  /\ shot.file
  /\ shot.live = {}

(***************************************************************************)
(* C24: the Articles are written in the order in which their pages close.  *)
(* Each record comes from the close of one page, the closes behind the     *)
(* records are strictly increasing lines of the dump (an order-preserving  *)
(* subsequence of the page sequence, no page twice), a step only appends   *)
(* to the Articles unless the fallback starts over, and the output holds   *)
(* the records in that order, each with the title of its page.             *)
(***************************************************************************)
C24_PageCloseOrder ==
  /\ [](/\ Len(emittedAt) = Len(articles)
        /\ \A k \in 1..Len(emittedAt) : Has(dump[emittedAt[k]], "</page>")
        /\ \A k \in 1..(Len(emittedAt) - 1) : emittedAt[k] < emittedAt[k + 1]
        /\ pc = "done" =>
             /\ Len(output) = Len(emittedAt)
             /\ AllPagesClosed =>
                  \A k \in 1..Len(output) : output[k]["title"] = PageTitle(emittedAt[k]))
  /\ [][\/ articles' = articles
        \/ /\ Len(articles') = Len(articles) + 1
           /\ SubSeq(articles', 1, Len(articles)) = articles
        \/ pc = "structured" /\ pc' = "fallback" /\ articles' = <<>>]_vars

C24_Witness ==
  /\ pc = "done"
  /\ FellBack
  /\ Len(output) = 2
  /\ output[1]["title"] # output[2]["title"]
  /\ output[1]["title"] = PageTitle(emittedAt[1])
  /\ output[2]["title"] = PageTitle(emittedAt[2])

(***************************************************************************)
(* C25: after any sequence of download_dump calls, a call returns the dump *)
(* path only if the file at that path was downloaded completely, and a     *)
(* partial file left by a failed download is never reported as already     *)
(* existing.                                                               *)
(***************************************************************************)
ReturnsPath ==
  /\ Len(main'.calls) = Len(main.calls) + 1
  /\ main'.calls[Len(main'.calls)] = "path"

C25_ReturnsOnlyCompleteDumps ==
  [][/\ ReturnsPath => main'.disk = "present"
     /\ main.disk = "partial" => "Dump file already exists" \notin printed']_vars

(***************************************************************************)
(* C26: in the parallel screenshot job the work list is the target doc ids *)
(* minus the ids that have a .png in the screenshots directory when the    *)
(* job starts; every task is handed to at most one worker while the pool   *)
(* runs and to exactly one when it has closed; the workers' drivers are    *)
(* pairwise different and a file is written with the driver of the worker  *)
(* that writes it; no two workers write the same file, and no file of the  *)
(* directory listing is written again.                                     *)
(***************************************************************************)
TargetsOfFile == {SubSeq(ln, 1, Len(ln) - 1) : ln \in pool.doc_ids_txt}

HasPng(doc_id) == Png(doc_id) \in pool.existing_files

C26_EachTaskToOneWorker ==
  pool.pc \in {"pool", "running", "closed"} =>
    /\ pool.target_doc_ids = {doc_id \in TargetsOfFile : ~HasPng(doc_id)}
    /\ pool.urls = {Url(doc_id) : doc_id \in pool.target_doc_ids}
    /\ \A t \in pool.urls :
         /\ Len(pool.handed[t]) <= 1
         /\ pool.pc = "closed" => Len(pool.handed[t]) = 1
         /\ t \in pool.queue <=> pool.handed[t] = <<>>
    /\ pool.pc # "pool" =>
         /\ \A w, v \in Workers :
              /\ pool.workers[w].driver # 0
              /\ w # v => pool.workers[w].driver # pool.workers[v].driver
              /\ (w # v /\ pool.workers[w].task # Idle) =>
                   pool.workers[w].task # pool.workers[v].task
         /\ \A x, y \in pool.writes :
              /\ x.driver = pool.workers[x.worker].driver
              /\ x.file = y.file => x.worker = y.worker
              /\ x.file \notin pool.existing_files
              /\ \E t \in pool.urls : x.file = Png(t[2]) /\ pool.handed[t] = <<x.worker>>

C26_Witness ==
  /\ pool.pc = "closed"
  /\ pool.existing_doc_ids # {}
  /\ pool.existing_doc_ids \subseteq TargetsOfFile
  /\ Cardinality(pool.urls) = 2
  /\ Cardinality(pool.writes) = 2
  /\ \E x, y \in pool.writes : x.worker # y.worker
  /\ "Retry" \in printed
====
